---------------------------- MODULE Spec2Model ----------------------------
(***************************************************************************)
(* A model of the fileshare repository's two protocol managers:            *)
(*   WebRTCManager      (src/src/utils/webrtc.ts)      1:1 file transfer   *)
(*   ChatWebRTCManager  (src/src/utils/chatWebRTC.ts)  1:N chat/transfer   *)
(* and of the two UI flows that drive the pair handshake                   *)
(*   (src/src/components/Receiver.tsx, src/src/components/Sender.tsx).     *)
(*                                                                         *)
(* The transport (simple-peer) is the environment.  What the model takes   *)
(* from it: frames of one transport arrive in send order; every 'data'     *)
(* event carries a Buffer, whether the frame was sent as text or as        *)
(* binary (the managers call data.toString() on both); send() on a         *)
(* destroyed transport throws; a responder emits 'signal' only after it    *)
(* has been given the remote offer.                                        *)
(***************************************************************************)
EXTENDS Integers, Sequences, FiniteSets, TLC

(* ------------------------------ bounds -------------------------------- *)
\* Largest payload, in bytes.
MaxSize == 3
\* Bytes per chunk: CHUNK_SIZE (webrtc.ts:4, chatWebRTC.ts:10) scaled down.
ChunkSize == 2
\* Concurrent sendFile calls on one manager.
NCalls == 2
\* Subscribers of one host.
NSubs == 2
\* processAnswer calls that may succeed for one subscriber id.
MaxAnswers == 2
\* Messages one message callback may have been given.
MaxLog == 3
\* Multiples of CHUNK_SIZE around which file sizes are tried.
MaxBlocks == 12

\* Binary frames an instance is handed beyond which the model stops.
MaxRecv == 3

\* File events an instance raises beyond which the model stops (a
\* 'fileComplete' frame is still processed then).
MaxRaised == 1

\* null / undefined where the code holds an object or nothing.
Null == [null |-> TRUE]
Calls == 1..NCalls

(* ------------------------------ payloads ------------------------------ *)
\* The bytes a payload is made of.  "7" is the ASCII digit 7; Tag(c) is a
\* letter that marks the payload of call c.
Tag(c) == IF c = 1 THEN "a" ELSE IF c = 2 THEN "b" ELSE "c"
BytesOf(c) == {Tag(c), "7"}

SeqsUpTo(S, n) == UNION {[1..k -> S] : k \in 0..n}

\* The File objects call c may be given: name, type and content.
FilesOf(c) ==
  {[name |-> Tag(c), type |-> Tag(c), data |-> d] : d \in SeqsUpTo(BytesOf(c), MaxSize)}

\* Math.ceil(size / CHUNK_SIZE)
CeilDiv(s, c) == (s + c - 1) \div c

Min(a, b) == IF a < b THEN a ELSE b

\* file.slice(i * CHUNK_SIZE, Math.min(i * CHUNK_SIZE + CHUNK_SIZE, file.size))
Slice(f, i) == SubSeq(f.data, i * ChunkSize + 1, Min(i * ChunkSize + ChunkSize, Len(f.data)))

(* ------------------------------- frames ------------------------------- *)
\* peer.send(JSON.stringify(msg)) and peer.send(arrayBuffer).
TextFrame(msg) == [text |-> TRUE, msg |-> msg, bytes |-> <<>>]
BinaryFrame(b) == [text |-> FALSE, msg |-> [type |-> "undefined", data |-> Null], bytes |-> b]

\* Is the UTF-8 text of these bytes a JSON document?  Over the byte
\* alphabet of the model only a run of digits is one (a number).
IsJsonText(b) == Len(b) > 0 /\ \A k \in 1..Len(b) : b[k] = "7"

\* JSON.parse(data.toString()) does not throw.
JsonParses(frame) == frame.text \/ IsJsonText(frame.bytes)

\* A dispatch that reads the type of the payload, not of the frame.
MessageTypeOfPayload(frame) == IF frame.text THEN frame.msg.data.type ELSE "undefined"

\* message.type of the parsed frame; a parsed number has no type.
MessageType(frame) == IF frame.text THEN frame.msg.type ELSE "undefined"


(* ====================================================================== *)
(*                     WebRTCManager (pair protocol)                      *)
(* ====================================================================== *)
\* Two WebRTCManager instances joined by one transport: "snd" runs
\* sendFile, "rcv" handles the 'data' events.
Mgr == {"snd", "rcv"}

VARIABLES
  peer,                \* [Mgr] this.peer: "null", or the transport's state
  fileData,            \* [Mgr] this.fileData: a FileData record or Null
  receivedChunks,      \* [Mgr] this.receivedChunks: Map index -> bytes
  expectedChunkIndex,  \* [Mgr] this.expectedChunkIndex
  connectionTimeout,   \* [Mgr] this.connectionTimeout is armed
  wire,                \* frames sent by snd and not yet delivered to rcv
  pc,                  \* [Calls] where each sendFile call stands
  sfile,               \* [Calls] the File each call was given
  si,                  \* [Calls] the loop variable i of each call
  onFileReceived,      \* the files rcv has raised through onFileReceivedCallback
  onProgress,          \* [Mgr] the last TransferProgress given to onProgressCallback
  onDisconnected,      \* [Mgr] number of onDisconnectedCallback invocations
  lossInFlight,        \* [Calls] snd lost its transport while the call was between chunks
  lateEffect           \* [Calls] the call sent a frame or reported progress after that loss

pairVars ==
  <<peer, fileData, receivedChunks, expectedChunkIndex, connectionTimeout, wire, pc,
    sfile, si, onFileReceived, onProgress, onDisconnected, lossInFlight, lateEffect>>

EmptyMap == [k \in {} |-> <<>>]
MapSet(m, k, v) == [x \in DOMAIN m \cup {k} |-> IF x = k THEN v ELSE m[x]]

\* Math.round((n / total) * 100); a total of 0 divides by zero.
Percentage(n, total) ==
  IF total = 0
    THEN [kind |-> IF n = 0 THEN "NaN" ELSE "Infinity", value |-> 0]
    ELSE [kind |-> "finite", value |-> (200 * n + total) \div (2 * total)]

NoFile == [name |-> "", type |-> "", data |-> <<>>]

\* FileData built by sendFile from the File.
Descriptor(f) ==
  [name |-> f.name, size |-> Len(f.data), type |-> f.type,
   chunks |-> CeilDiv(Len(f.data), ChunkSize)]

\* new Blob(chunks): the chunks 0 .. n-1 of the map, concatenated.
RECURSIVE Concat(_, _)
Concat(m, n) == IF n = 0 THEN <<>> ELSE Concat(m, n - 1) \o m[n - 1]

\* this.peer.send(frame) succeeds: this.peer is not null (else a TypeError)
\* and the transport is not destroyed (else simple-peer throws).
CanSend(m) == peer[m] = "connected"

(* ------------------------------ sendFile ------------------------------ *)
\* A sendFile that records the descriptor before it looks at the transport.
SendFileBeginRecordsFirst(c, f) ==
  /\ pc[c] = "idle"
  /\ sfile' = [sfile EXCEPT ![c] = f]
  /\ fileData' = [fileData EXCEPT !["snd"] = Descriptor(f)]
  /\ IF peer["snd"] # "connected"
       THEN /\ pc' = [pc EXCEPT ![c] = "rejected"]
            /\ UNCHANGED <<wire, si>>
       ELSE /\ si' = [si EXCEPT ![c] = 0]
            /\ IF Descriptor(f).chunks = 0
                 THEN /\ wire' = wire \o <<TextFrame([type |-> "fileStart", data |-> Descriptor(f)]),
                                           TextFrame([type |-> "fileComplete", data |-> Null])>>
                      /\ pc' = [pc EXCEPT ![c] = "resolved"]
                 ELSE /\ wire' = Append(wire, TextFrame([type |-> "fileStart", data |-> Descriptor(f)]))
                      /\ pc' = [pc EXCEPT ![c] = "read"]
  /\ UNCHANGED <<peer, receivedChunks, expectedChunkIndex, connectionTimeout, onFileReceived,
                 onProgress, onDisconnected, lossInFlight, lateEffect>>

\* sendFile up to its first await: the connected check, fileStart, and for
\* an empty file (chunks = 0) fileComplete in the same turn.
SendFileBegin(c, f) ==
  /\ pc[c] = "idle"
  /\ sfile' = [sfile EXCEPT ![c] = f]
  /\ IF peer["snd"] # "connected"
       THEN /\ pc' = [pc EXCEPT ![c] = "rejected"]
            /\ UNCHANGED <<fileData, wire, si>>
       ELSE /\ fileData' = [fileData EXCEPT !["snd"] = Descriptor(f)]
            /\ si' = [si EXCEPT ![c] = 0]
            /\ IF Descriptor(f).chunks = 0
                 THEN /\ wire' = wire \o <<TextFrame([type |-> "fileStart", data |-> Descriptor(f)]),
                                           TextFrame([type |-> "fileComplete", data |-> Null])>>
                      /\ pc' = [pc EXCEPT ![c] = "resolved"]
                 ELSE /\ wire' = Append(wire, TextFrame([type |-> "fileStart", data |-> Descriptor(f)]))
                      /\ pc' = [pc EXCEPT ![c] = "read"]
  /\ UNCHANGED <<peer, receivedChunks, expectedChunkIndex, connectionTimeout, onFileReceived,
                 onProgress, onDisconnected, lossInFlight, lateEffect>>

\* chunk.arrayBuffer() has resolved: chunkStart, the bytes, the progress
\* callback, then the 10 ms delay.
SendFileChunk(c) ==
  /\ pc[c] = "read"
  /\ IF CanSend("snd")
       THEN /\ wire' = wire \o
                 <<TextFrame([type |-> "chunkStart",
                              data |-> [index |-> si[c], size |-> Len(Slice(sfile[c], si[c])),
                                        total |-> Descriptor(sfile[c]).chunks]]),
                   BinaryFrame(Slice(sfile[c], si[c]))>>
            /\ onProgress' = [onProgress EXCEPT !["snd"] =
                 [sent |-> si[c] + 1, total |-> Descriptor(sfile[c]).chunks,
                  percentage |-> Percentage(si[c] + 1, Descriptor(sfile[c]).chunks)]]
            /\ pc' = [pc EXCEPT ![c] = "delay"]
            /\ lateEffect' = [lateEffect EXCEPT ![c] = @ \/ lossInFlight[c]]
       ELSE /\ pc' = [pc EXCEPT ![c] = "rejected"]
            /\ UNCHANGED <<wire, onProgress, lateEffect>>
  /\ UNCHANGED <<peer, fileData, receivedChunks, expectedChunkIndex, connectionTimeout, sfile,
                 si, onFileReceived, onDisconnected, lossInFlight>>

\* The 10 ms delay is over: i++, and either the next slice is read or
\* fileComplete is sent and the promise resolves.
SendFileDelay(c) ==
  /\ pc[c] = "delay"
  /\ si' = [si EXCEPT ![c] = @ + 1]
  /\ IF si[c] + 1 < Descriptor(sfile[c]).chunks
       THEN /\ pc' = [pc EXCEPT ![c] = "read"]
            /\ UNCHANGED <<wire, lateEffect>>
       ELSE IF CanSend("snd")
         THEN /\ wire' = Append(wire, TextFrame([type |-> "fileComplete", data |-> Null]))
              /\ pc' = [pc EXCEPT ![c] = "resolved"]
              /\ lateEffect' = [lateEffect EXCEPT ![c] = @ \/ lossInFlight[c]]
         ELSE /\ pc' = [pc EXCEPT ![c] = "rejected"]
              /\ UNCHANGED <<wire, lateEffect>>
  /\ UNCHANGED <<peer, fileData, receivedChunks, expectedChunkIndex, connectionTimeout, sfile,
                 onFileReceived, onProgress, onDisconnected, lossInFlight>>

(* --------------------------- the receive path -------------------------- *)
\* handleBinaryChunk: the bytes are stored under expectedChunkIndex, whatever
\* index the preceding chunkStart declared.
HandleBinaryChunk(m, data) ==
  IF fileData[m] = Null
    THEN UNCHANGED <<receivedChunks, expectedChunkIndex, onProgress>>
    ELSE /\ receivedChunks' =
              [receivedChunks EXCEPT ![m] = MapSet(@, expectedChunkIndex[m], data)]
         /\ expectedChunkIndex' = [expectedChunkIndex EXCEPT ![m] = @ + 1]
         /\ onProgress' = [onProgress EXCEPT ![m] =
              [sent |-> Cardinality(DOMAIN receivedChunks'[m]), total |-> fileData[m].chunks,
               percentage |-> Percentage(Cardinality(DOMAIN receivedChunks'[m]), fileData[m].chunks)]]

\* An assembleFile that looks for every index but not at the map's size.
CanAssembleIgnoringCount(m) ==
  /\ fileData[m] # Null
  /\ \A k \in 0..(fileData[m].chunks - 1) : k \in DOMAIN receivedChunks[m]

\* assembleFile can build the File: metadata is there, the map holds
\* fileData.chunks entries and every index 0 .. chunks-1 is among them.
CanAssemble(m) ==
  /\ fileData[m] # Null
  /\ Cardinality(DOMAIN receivedChunks[m]) = fileData[m].chunks
  /\ \A k \in 0..(fileData[m].chunks - 1) : k \in DOMAIN receivedChunks[m]

\* The File that assembleFile hands to onFileReceivedCallback.
AssembledFile(m) ==
  [name |-> fileData[m].name, type |-> fileData[m].type,
   data |-> Concat(receivedChunks[m], fileData[m].chunks)]

AssembleFile(m) ==
  IF CanAssemble(m)
    THEN onFileReceived' = Append(onFileReceived, AssembledFile(m))
    ELSE UNCHANGED onFileReceived

\* A handleReceivedData whose 'chunkStart' case moves the next index to the
\* one the frame declares.
HandleReceivedDataSeeksIndex(m, frame) ==
  IF JsonParses(frame)
    THEN CASE MessageType(frame) = "fileStart" ->
                /\ fileData' = [fileData EXCEPT ![m] = frame.msg.data]
                /\ receivedChunks' = [receivedChunks EXCEPT ![m] = EmptyMap]
                /\ expectedChunkIndex' = [expectedChunkIndex EXCEPT ![m] = 0]
                /\ UNCHANGED <<onFileReceived, onProgress>>
           [] MessageType(frame) = "chunkStart" ->
                /\ expectedChunkIndex' = [expectedChunkIndex EXCEPT ![m] = frame.msg.data.index]
                /\ UNCHANGED <<fileData, receivedChunks, onFileReceived, onProgress>>
           [] MessageType(frame) = "fileComplete" ->
                /\ AssembleFile(m)
                /\ UNCHANGED <<fileData, receivedChunks, expectedChunkIndex, onProgress>>
           [] OTHER ->
                UNCHANGED <<fileData, receivedChunks, expectedChunkIndex, onFileReceived, onProgress>>
    ELSE /\ HandleBinaryChunk(m, frame.bytes)
         /\ UNCHANGED <<fileData, onFileReceived>>

\* handleReceivedData: a frame that parses as JSON is a control frame and is
\* dispatched on its type; any other frame is chunk data if metadata is set.
HandleReceivedData(m, frame) ==
  IF JsonParses(frame)
    THEN CASE MessageType(frame) = "fileStart" ->
                /\ fileData' = [fileData EXCEPT ![m] = frame.msg.data]
                /\ receivedChunks' = [receivedChunks EXCEPT ![m] = EmptyMap]
                /\ expectedChunkIndex' = [expectedChunkIndex EXCEPT ![m] = 0]
                /\ UNCHANGED <<onFileReceived, onProgress>>
           [] MessageType(frame) = "chunkStart" ->
                UNCHANGED <<fileData, receivedChunks, expectedChunkIndex, onFileReceived, onProgress>>
           [] MessageType(frame) = "fileComplete" ->
                /\ AssembleFile(m)
                /\ UNCHANGED <<fileData, receivedChunks, expectedChunkIndex, onProgress>>
           [] OTHER ->
                UNCHANGED <<fileData, receivedChunks, expectedChunkIndex, onFileReceived, onProgress>>
    ELSE /\ HandleBinaryChunk(m, frame.bytes)
         /\ UNCHANGED <<fileData, onFileReceived>>

\* The transport of rcv emits 'data' with the oldest frame in flight.
Deliver ==
  /\ wire # <<>>
  /\ peer["rcv"] = "connected"
  /\ HandleReceivedData("rcv", Head(wire))
  /\ wire' = Tail(wire)
  /\ UNCHANGED <<peer, connectionTimeout, pc, sfile, si, onDisconnected, lossInFlight, lateEffect>>

(* ------------------------------ teardown ------------------------------ *)
\* The calls that are between two chunks.
InFlight == {c \in Calls : pc[c] \in {"read", "delay"}}

NoteLoss(m) ==
  lossInFlight' = [c \in Calls |-> lossInFlight[c] \/ (m = "snd" /\ c \in InFlight)]

\* The transport of m closes by itself; the 'close' handler of createPeer
\* runs cleanup() and onDisconnectedCallback.
PeerClose(m) ==
  /\ peer[m] \in {"new", "connected"}
  /\ peer' = [peer EXCEPT ![m] = "destroyed"]
  /\ connectionTimeout' = [connectionTimeout EXCEPT ![m] = FALSE]
  /\ onDisconnected' = [onDisconnected EXCEPT ![m] = @ + 1]
  /\ NoteLoss(m)
  /\ UNCHANGED <<fileData, receivedChunks, expectedChunkIndex, wire, pc, sfile, si,
                 onFileReceived, onProgress, lateEffect>>

\* A destroy() that runs onDisconnectedCallback itself, transport or not.
DestroyAlwaysNotifies(m) ==
  /\ connectionTimeout' = [connectionTimeout EXCEPT ![m] = FALSE]
  /\ peer' = [peer EXCEPT ![m] = "null"]
  /\ onDisconnected' = [onDisconnected EXCEPT ![m] = @ + 1]
  /\ receivedChunks' = [receivedChunks EXCEPT ![m] = EmptyMap]
  /\ fileData' = [fileData EXCEPT ![m] = Null]
  /\ expectedChunkIndex' = [expectedChunkIndex EXCEPT ![m] = 0]
  /\ NoteLoss(m)
  /\ UNCHANGED <<wire, pc, sfile, si, onFileReceived, onProgress, lateEffect>>

\* destroy(): cleanup(), peer.destroy() (whose 'close' event runs the handler
\* above), this.peer = null, and the transfer state is cleared.
Destroy(m) ==
  /\ connectionTimeout' = [connectionTimeout EXCEPT ![m] = FALSE]
  /\ peer' = [peer EXCEPT ![m] = "null"]
  /\ onDisconnected' =
       [onDisconnected EXCEPT ![m] = IF peer[m] \in {"new", "connected"} THEN @ + 1 ELSE @]
  /\ receivedChunks' = [receivedChunks EXCEPT ![m] = EmptyMap]
  /\ fileData' = [fileData EXCEPT ![m] = Null]
  /\ expectedChunkIndex' = [expectedChunkIndex EXCEPT ![m] = 0]
  /\ NoteLoss(m)
  /\ UNCHANGED <<wire, pc, sfile, si, onFileReceived, onProgress, lateEffect>>

(* --------------------------- the pair system --------------------------- *)
\* Both managers constructed and their transport connected; nothing sent.
PairInit ==
  /\ peer = [m \in Mgr |-> "connected"]
  /\ fileData = [m \in Mgr |-> Null]
  /\ receivedChunks = [m \in Mgr |-> EmptyMap]
  /\ expectedChunkIndex = [m \in Mgr |-> 0]
  /\ connectionTimeout = [m \in Mgr |-> FALSE]
  /\ wire = <<>>
  /\ pc = [c \in Calls |-> "idle"]
  /\ sfile = [c \in Calls |-> NoFile]
  /\ si = [c \in Calls |-> 0]
  /\ onFileReceived = <<>>
  /\ onProgress = [m \in Mgr |-> Null]
  /\ onDisconnected = [m \in Mgr |-> 0]
  /\ lossInFlight = [c \in Calls |-> FALSE]
  /\ lateEffect = [c \in Calls |-> FALSE]

(* ====================================================================== *)
(*                 ChatWebRTCManager (broadcast protocol)                  *)
(* ====================================================================== *)
\* One host instance and, per subscriber id, one subscriber instance.
\* generateId() draws ids at random; the model hands out 1, 2, ... to the
\* offers and uses the number of the call as the fileId of a sendFile.
Ids == 1..NSubs

VARIABLES
  peers,            \* host: the keys of this.peers
  subscribers,      \* host: this.subscribers, id -> Subscriber
  tHost,            \* [Ids] state of the host's transport for that id
  hostFed,          \* [Ids] the host's transport was given the answer
  errFired,         \* ids whose host transport has emitted 'error'
  closeFired,       \* ids whose host transport has emitted 'close'
  offerPromise,     \* [Ids] the promise createOffer returned
  nextId,           \* the id the next createOffer draws
  now,              \* Date.now(), a logical clock
  h2s,              \* [Ids] frames sent by the host, not yet delivered
  fileTransfers,    \* [Ids] subscriber: this.fileTransfers, in insertion order
  onMessage,        \* [Ids] subscriber: the ChatMessages given to onMessageCallback
  onFileProgress,   \* [Ids] subscriber: the last progress given to onFileProgressCallback
  hostOnMessage,    \* host: the ChatMessages given to onMessageCallback
  hostProgress,     \* host: number of onFileProgressCallback invocations
  joinedCount,      \* [Ids] onSubscriberJoinedCallback invocations
  leftCount,        \* [Ids] onSubscriberLeftCallback invocations
  okAnswers,        \* [Ids] processAnswer calls that succeeded
  tornDown,         \* ids that were in this.subscribers when destroy() ran
  hpc,              \* [Calls] where each host sendFile call stands
  hfile,            \* [Calls] the File each call was given
  htargets,         \* [Calls] the targets array of each call
  hi,               \* [Calls] the loop variable i of each call
  hLoss,            \* [Calls] every target was lost while the call was between chunks
  hLate             \* [Calls] the call reported progress or sent a chunk after that loss

chatVars ==
  <<peers, subscribers, tHost, hostFed, errFired, closeFired, offerPromise, nextId, now,
    h2s, fileTransfers, onMessage, onFileProgress, hostOnMessage, hostProgress,
    joinedCount, leftCount, okAnswers, tornDown, hpc, hfile, htargets, hi, hLoss, hLate>>

NoSubscribers == [k \in {} |-> Null]

\* peer && peer.connected, for the host's transport of id.
HostCanSend(id) == id \in peers /\ tHost[id] = "connected"

\* targets.forEach(...peer.send(frames)...): the frames are appended to the
\* wire of every target whose transport is there and connected.
FanOut(targets, frames) ==
  h2s' = [id \in Ids |-> IF id \in targets /\ HostCanSend(id) THEN h2s[id] \o frames ELSE h2s[id]]

FileStartFrame(c, f) ==
  TextFrame([type |-> "fileStart",
             data |-> [fileId |-> c, fileName |-> f.name, fileSize |-> Len(f.data),
                       fileType |-> f.type, totalChunks |-> CeilDiv(Len(f.data), ChunkSize)]])
FileChunkFrame(c, f, k) ==
  TextFrame([type |-> "fileChunk",
             data |-> [fileId |-> c, chunkIndex |-> k,
                       totalChunks |-> CeilDiv(Len(f.data), ChunkSize)]])
FileCompleteFrame(c) == TextFrame([type |-> "fileComplete", data |-> [fileId |-> c]])

(* --------------------------- host: sendFile ---------------------------- *)
\* sendFile up to its first await: the local file message, fileStart to the
\* targets and, for an empty file, fileComplete in the same turn.
ChatSendFileBegin(c, f, targets) ==
  /\ hpc[c] = "idle"
  /\ hfile' = [hfile EXCEPT ![c] = f]
  /\ htargets' = [htargets EXCEPT ![c] = targets]
  /\ hi' = [hi EXCEPT ![c] = 0]
  /\ hostOnMessage' = Append(hostOnMessage, [type |-> "file", id |-> c, content |-> f.name, receiving |-> FALSE,
                                              sender |-> "host", url |-> FALSE, data |-> <<>>])
  /\ IF CeilDiv(Len(f.data), ChunkSize) = 0
       THEN /\ FanOut(targets, <<FileStartFrame(c, f), FileCompleteFrame(c)>>)
            /\ hpc' = [hpc EXCEPT ![c] = "resolved"]
       ELSE /\ FanOut(targets, <<FileStartFrame(c, f)>>)
            /\ hpc' = [hpc EXCEPT ![c] = "read"]
  /\ UNCHANGED <<peers, subscribers, tHost, hostFed, errFired, closeFired, offerPromise, nextId,
                 now, fileTransfers, onMessage, onFileProgress, hostProgress, joinedCount,
                 leftCount, okAnswers, tornDown, hLoss, hLate>>

\* A chunk step that reports progress once per target it could send to.
ChatSendFileChunkPerTarget(c) ==
  /\ hpc[c] = "read"
  /\ FanOut(htargets[c], <<FileChunkFrame(c, hfile[c], hi[c]), BinaryFrame(Slice(hfile[c], hi[c]))>>)
  /\ hostProgress' = hostProgress + Cardinality({id \in htargets[c] : HostCanSend(id)})
  /\ hpc' = [hpc EXCEPT ![c] = "delay"]
  /\ hLate' = [hLate EXCEPT ![c] = @ \/ hLoss[c]]
  /\ UNCHANGED <<peers, subscribers, tHost, hostFed, errFired, closeFired, offerPromise, nextId,
                 now, fileTransfers, onMessage, onFileProgress, hostOnMessage, joinedCount,
                 leftCount, okAnswers, tornDown, hfile, htargets, hi, hLoss>>

\* chunk.arrayBuffer() has resolved: fileChunk and the bytes to every
\* target, one progress callback, then the 10 ms delay.
ChatSendFileChunk(c) ==
  /\ hpc[c] = "read"
  /\ FanOut(htargets[c], <<FileChunkFrame(c, hfile[c], hi[c]), BinaryFrame(Slice(hfile[c], hi[c]))>>)
  /\ hostProgress' = hostProgress + 1
  /\ hpc' = [hpc EXCEPT ![c] = "delay"]
  /\ hLate' = [hLate EXCEPT ![c] = @ \/ hLoss[c]]
  /\ UNCHANGED <<peers, subscribers, tHost, hostFed, errFired, closeFired, offerPromise, nextId,
                 now, fileTransfers, onMessage, onFileProgress, hostOnMessage, joinedCount,
                 leftCount, okAnswers, tornDown, hfile, htargets, hi, hLoss>>

\* The delay is over: i++, then the next slice, or fileComplete to every
\* target and the promise resolves.
ChatSendFileDelay(c) ==
  /\ hpc[c] = "delay"
  /\ hi' = [hi EXCEPT ![c] = @ + 1]
  /\ IF hi[c] + 1 < CeilDiv(Len(hfile[c].data), ChunkSize)
       THEN /\ hpc' = [hpc EXCEPT ![c] = "read"]
            /\ UNCHANGED h2s
       ELSE /\ FanOut(htargets[c], <<FileCompleteFrame(c)>>)
            /\ hpc' = [hpc EXCEPT ![c] = "resolved"]
  /\ UNCHANGED <<peers, subscribers, tHost, hostFed, errFired, closeFired, offerPromise, nextId,
                 now, fileTransfers, onMessage, onFileProgress, hostOnMessage, hostProgress,
                 joinedCount, leftCount, okAnswers, tornDown, hfile, htargets, hLoss, hLate>>

(* ----------------------- subscriber: receive path ---------------------- *)
\* Positions of the Map entries with the given key (none or one).
PosOf(ft, fileId) == {k \in 1..Len(ft) : ft[k].fileId = fileId}

\* Positions of the entries that still lack chunks.
OpenPos(ft) == {k \in 1..Len(ft) : ft[k].receivedChunks < ft[k].totalChunks}

SetMin(S) == CHOOSE x \in S : \A y \in S : x <= y

RemoveAt(sq, k) == SubSeq(sq, 1, k - 1) \o SubSeq(sq, k + 1, Len(sq))

\* A handleFileStart that keeps the chunk count of the entry it replaces.
NewTransferKeepsCount(d) ==
  [fileId |-> d.fileId, chunks |-> EmptyMap, receivedChunks |-> 1,
   totalChunks |-> d.totalChunks, fileName |-> d.fileName, fileSize |-> d.fileSize,
   fileType |-> d.fileType]

NewTransfer(d) ==
  [fileId |-> d.fileId, chunks |-> EmptyMap, receivedChunks |-> 0,
   totalChunks |-> d.totalChunks, fileName |-> d.fileName, fileSize |-> d.fileSize,
   fileType |-> d.fileType]

\* handleFileStart: this.fileTransfers.set(fileId, fresh state) and the
\* "Receiving ..." message.  Map.set keeps the position of an existing key.
HandleFileStart(s, d) ==
  /\ fileTransfers' = [fileTransfers EXCEPT ![s] =
       IF PosOf(@, d.fileId) = {}
         THEN Append(@, NewTransfer(d))
         ELSE [@ EXCEPT ![SetMin(PosOf(fileTransfers[s], d.fileId))] = NewTransfer(d)]]
  /\ onMessage' = [onMessage EXCEPT ![s] =
       Append(@, [type |-> "file", id |-> d.fileId, content |-> d.fileName, receiving |-> TRUE,
                  sender |-> "host", url |-> FALSE, data |-> <<>>])]
  /\ UNCHANGED onFileProgress

\* handleBinaryChunk: the bytes go to the first transfer, in Map order, that
\* still lacks chunks, under the index receivedChunks of that transfer.
ChatHandleBinaryChunk(s, data) ==
  IF OpenPos(fileTransfers[s]) = {}
    THEN UNCHANGED <<fileTransfers, onMessage, onFileProgress>>
    ELSE LET k == SetMin(OpenPos(fileTransfers[s]))
             t == fileTransfers[s][k]
         IN /\ fileTransfers' = [fileTransfers EXCEPT ![s][k] =
                 [t EXCEPT !.chunks = MapSet(t.chunks, t.receivedChunks, data),
                           !.receivedChunks = t.receivedChunks + 1]]
            /\ onFileProgress' = [onFileProgress EXCEPT ![s] =
                 [percentage |-> Percentage(t.receivedChunks + 1, t.totalChunks),
                  fileName |-> t.fileName]]
            /\ UNCHANGED onMessage

\* handleFileComplete: the transfer of that fileId, if it is there and
\* complete, becomes a file message with a download URL and is deleted.
HandleFileComplete(s, d) ==
  IF PosOf(fileTransfers[s], d.fileId) = {}
    THEN UNCHANGED <<fileTransfers, onMessage, onFileProgress>>
    ELSE LET k == SetMin(PosOf(fileTransfers[s], d.fileId))
             t == fileTransfers[s][k]
         IN IF \/ t.receivedChunks # t.totalChunks
               \/ \E x \in 0..(t.totalChunks - 1) : x \notin DOMAIN t.chunks
              THEN UNCHANGED <<fileTransfers, onMessage, onFileProgress>>
              ELSE /\ onMessage' = [onMessage EXCEPT ![s] =
                        Append(@, [type |-> "file", id |-> d.fileId, content |-> t.fileName,
                                   receiving |-> FALSE, sender |-> "host", url |-> TRUE,
                                   data |-> Concat(t.chunks, t.totalChunks)])]
                   /\ fileTransfers' = [fileTransfers EXCEPT ![s] = RemoveAt(@, k)]
                   /\ UNCHANGED onFileProgress

\* handleReceivedData of a subscriber instance.
ChatHandleReceivedData(s, frame) ==
  IF JsonParses(frame)
    THEN CASE MessageType(frame) = "message" ->
                /\ onMessage' = [onMessage EXCEPT ![s] = Append(@, frame.msg.data)]
                /\ UNCHANGED <<fileTransfers, onFileProgress>>
           [] MessageType(frame) = "fileStart" -> HandleFileStart(s, frame.msg.data)
           [] MessageType(frame) = "fileChunk" ->
                UNCHANGED <<fileTransfers, onMessage, onFileProgress>>
           [] MessageType(frame) = "fileComplete" -> HandleFileComplete(s, frame.msg.data)
           [] OTHER -> UNCHANGED <<fileTransfers, onMessage, onFileProgress>>
    ELSE ChatHandleBinaryChunk(s, frame.bytes)

\* The subscriber's transport emits 'data' with the oldest frame in flight.
ChatDeliver(s) ==
  /\ h2s[s] # <<>>
  /\ ChatHandleReceivedData(s, Head(h2s[s]))
  /\ h2s' = [h2s EXCEPT ![s] = Tail(@)]
  /\ UNCHANGED <<peers, subscribers, tHost, hostFed, errFired, closeFired, offerPromise, nextId,
                 now, hostOnMessage, hostProgress, joinedCount, leftCount, okAnswers, tornDown,
                 hpc, hfile, htargets, hi, hLoss, hLate>>

(* -------------------------- host: membership --------------------------- *)
\* A Map.delete that deletes nothing.
WithoutNothing(f, id) == f

Without(f, id) == [k \in DOMAIN f \ {id} |-> f[k]]

\* The calls that are between two chunks.
HostInFlight == {c \in Calls : hpc[c] \in {"read", "delay"}}

\* The transports in lost go away: a call in flight that could reach a
\* target before and can reach none afterwards has lost its transport.
NoteHostLoss(lost) ==
  hLoss' = [c \in Calls |->
    \/ hLoss[c]
    \/ /\ c \in HostInFlight
       /\ \E id \in htargets[c] \cap lost : HostCanSend(id)
       /\ \A id \in htargets[c] \ lost : ~HostCanSend(id)]

\* createOffer: a fresh id, a new initiator transport stored under it in
\* this.peers; the promise resolves in the 'signal' handler only.
CreateOffer ==
  /\ nextId <= NSubs
  /\ tHost' = [tHost EXCEPT ![nextId] = "new"]
  /\ peers' = peers \cup {nextId}
  /\ offerPromise' = [offerPromise EXCEPT ![nextId] = "pending"]
  /\ nextId' = nextId + 1
  /\ UNCHANGED <<subscribers, hostFed, errFired, closeFired, now, h2s, fileTransfers, onMessage,
                 onFileProgress, hostOnMessage, hostProgress, joinedCount, leftCount, okAnswers,
                 tornDown, hpc, hfile, htargets, hi, hLoss, hLate>>

\* The host's transport emits 'signal': resolve(signalData).
HostSignal(id) ==
  /\ tHost[id] = "new"
  /\ offerPromise[id] = "pending"
  /\ offerPromise' = [offerPromise EXCEPT ![id] = "resolved"]
  /\ UNCHANGED <<peers, subscribers, tHost, hostFed, errFired, closeFired, nextId, now, h2s,
                 fileTransfers, onMessage, onFileProgress, hostOnMessage, hostProgress,
                 joinedCount, leftCount, okAnswers, tornDown, hpc, hfile, htargets, hi, hLoss,
                 hLate>>

\* The host's sendMessage(content, targets): one frame to every target whose
\* transport is connected, and the local callback.
HostSendMessage(content, targets) ==
  /\ FanOut(targets, <<TextFrame([type |-> "message",
                                  data |-> [type |-> "text", id |-> 0, content |-> content,
                                            receiving |-> FALSE, sender |-> "host",
                                            url |-> FALSE, data |-> <<>>]])>>)
  /\ hostOnMessage' = Append(hostOnMessage, [type |-> "text", id |-> 0, content |-> content,
                                             receiving |-> FALSE, sender |-> "host",
                                             url |-> FALSE, data |-> <<>>])

\* processAnswer that signals and records whatever id the answer names.
AnswerAcceptedUnchecked(a) ==
  /\ a.subscriberId # 0
  /\ a.subscriberName # ""
  /\ tHost[a.subscriberId] # "destroyed"

\* processAnswer succeeds: both fields are there, this.peers holds the id
\* and peer.signal() does not throw (the transport is not destroyed).
AnswerAccepted(a) ==
  /\ a.subscriberId # 0
  /\ a.subscriberName # ""
  /\ a.subscriberId \in peers
  /\ tHost[a.subscriberId] # "destroyed"

\* processAnswer: on success the transport is signalled, the Subscriber is
\* recorded, 'joined' fires and the welcome message is sent to that id; a
\* rejected call changes nothing.
ProcessAnswer(a) ==
  IF AnswerAccepted(a)
    THEN /\ okAnswers[a.subscriberId] < MaxAnswers
         /\ hostFed' = [hostFed EXCEPT ![a.subscriberId] = TRUE]
         /\ subscribers' =
              [k \in DOMAIN subscribers \cup {a.subscriberId} |->
                 IF k = a.subscriberId
                   THEN [id |-> k, name |-> a.subscriberName, connected |-> TRUE, joinedAt |-> now]
                   ELSE subscribers[k]]
         /\ now' = now + 1
         /\ joinedCount' = [joinedCount EXCEPT ![a.subscriberId] = @ + 1]
         /\ okAnswers' = [okAnswers EXCEPT ![a.subscriberId] = @ + 1]
         /\ HostSendMessage("Welcome to the chat!", {a.subscriberId})
         /\ UNCHANGED <<peers, tHost, errFired, closeFired, offerPromise, nextId, fileTransfers,
                        onMessage, onFileProgress, hostProgress, leftCount, tornDown, hpc, hfile,
                        htargets, hi, hLoss, hLate>>
    ELSE UNCHANGED chatVars

\* The host's transport connects, once the answer has been signalled.
HostPeerConnect(id) ==
  /\ tHost[id] = "new"
  /\ hostFed[id]
  /\ tHost' = [tHost EXCEPT ![id] = "connected"]
  /\ UNCHANGED <<peers, subscribers, hostFed, errFired, closeFired, offerPromise, nextId, now,
                 h2s, fileTransfers, onMessage, onFileProgress, hostOnMessage, hostProgress,
                 joinedCount, leftCount, okAnswers, tornDown, hpc, hfile, htargets, hi, hLoss,
                 hLate>>

\* removeSubscriber without the subscribers.has(id) guard around 'left'.
RemoveSubscriberUnguarded(id) ==
  /\ subscribers' = [k \in DOMAIN subscribers \ {id} |-> subscribers[k]]
  /\ leftCount' = [leftCount EXCEPT ![id] = @ + 1]
  /\ peers' = peers \ {id}

\* removeSubscriber that drops the transport and keeps the Subscriber record.
RemoveSubscriberKeepsRecord(id) ==
  /\ subscribers' = subscribers
  /\ leftCount' = [leftCount EXCEPT ![id] = IF id \in DOMAIN subscribers THEN @ + 1 ELSE @]
  /\ peers' = peers \ {id}

\* removeSubscriber: 'left' fires only if the id is in this.subscribers; the
\* transport is destroyed and dropped from this.peers.
RemoveSubscriber(id) ==
  /\ subscribers' = Without(subscribers, id)
  /\ leftCount' = [leftCount EXCEPT ![id] = IF id \in DOMAIN subscribers THEN @ + 1 ELSE @]
  /\ peers' = peers \ {id}

\* The host's transport of id emits 'error'.
HostPeerError(id) ==
  /\ tHost[id] # "none"
  /\ id \notin errFired
  /\ errFired' = errFired \cup {id}
  /\ tHost' = [tHost EXCEPT ![id] = "destroyed"]
  /\ RemoveSubscriber(id)
  /\ NoteHostLoss({id})
  /\ UNCHANGED <<hostFed, closeFired, offerPromise, nextId, now, h2s, fileTransfers, onMessage,
                 onFileProgress, hostOnMessage, hostProgress, joinedCount, okAnswers, tornDown,
                 hpc, hfile, htargets, hi, hLate>>

\* The host's transport of id emits 'close'.
HostPeerClose(id) ==
  /\ tHost[id] # "none"
  /\ id \notin closeFired
  /\ closeFired' = closeFired \cup {id}
  /\ tHost' = [tHost EXCEPT ![id] = "destroyed"]
  /\ RemoveSubscriber(id)
  /\ NoteHostLoss({id})
  /\ UNCHANGED <<hostFed, errFired, offerPromise, nextId, now, h2s, fileTransfers, onMessage,
                 onFileProgress, hostOnMessage, hostProgress, joinedCount, okAnswers, tornDown,
                 hpc, hfile, htargets, hi, hLate>>

\* destroy() on the host: every transport of this.peers is destroyed, both
\* maps are cleared.
HostDestroy ==
  /\ tHost' = [id \in Ids |-> IF id \in peers THEN "destroyed" ELSE tHost[id]]
  /\ peers' = {}
  /\ subscribers' = NoSubscribers
  /\ tornDown' = tornDown \cup DOMAIN subscribers
  /\ NoteHostLoss(peers)
  /\ UNCHANGED <<hostFed, errFired, closeFired, offerPromise, nextId, now, h2s, fileTransfers,
                 onMessage, onFileProgress, hostOnMessage, hostProgress, joinedCount, leftCount,
                 okAnswers, hpc, hfile, htargets, hi, hLate>>

(* ====================================================================== *)
(*                             negotiation                                 *)
(* ====================================================================== *)
VARIABLES
  createPeerPromise,  \* [Mgr] the promise createPeer returned
  fed,                \* [Mgr] peer.signal(remote descriptor) has been called
  signalled,          \* [Mgr] the transport has emitted its 'signal'
  rxPc,               \* Receiver.handleOfferReceived: where it stands
  rxStep,             \* Receiver: the step state
  rxError,            \* Receiver: the error state is set
  txPc,               \* Sender.createOffer / handleAnswerReceived: where it stands
  txStep,             \* Sender: the step state
  txError,            \* Sender: the error state is set
  selectedFile,       \* Sender: the selectedFile state
  sendTimer,          \* Sender: the 1000 ms timer of handleAnswerReceived is armed
  timerFired,         \* Sender: that timer has run
  answerPromise,      \* [Ids] subscriber: the promise createAnswer returned
  tSub,               \* [Ids] subscriber: state of the transport to the host
  subscriberId,       \* [Ids] subscriber: this.subscriberId (0: the empty string)
  subErrFired,        \* subscribers whose transport has emitted 'error'
  subCloseFired,      \* subscribers whose transport has emitted 'close'
  subDisconnected     \* [Ids] subscriber: onDisconnectedCallback invocations

negVars ==
  <<createPeerPromise, fed, signalled, rxPc, rxStep, rxError, txPc, txStep, txError,
    selectedFile, sendTimer, timerFired, answerPromise, tSub, subscriberId, subErrFired,
    subCloseFired, subDisconnected>>

flowVars ==
  <<rxPc, rxStep, rxError, txPc, txStep, txError, selectedFile, sendTimer, timerFired>>
subVars == <<answerPromise, tSub, subscriberId, subErrFired, subCloseFired, subDisconnected>>
xferVars ==
  <<fileData, receivedChunks, expectedChunkIndex, wire, pc, sfile, si, onFileReceived,
    onProgress, lossInFlight, lateEffect>>

\* The constructor's isInitiator: the Sender passes true, the Receiver false.
IsInitiator(m) == m = "snd"

\* resolve() / reject() on a promise: only a pending promise changes.
Settle(p, how) == IF p = "pending" THEN how ELSE p

(* --------------------------- WebRTCManager ----------------------------- *)
\* createPeer: a new transport, the 30 s timer armed, the promise pending.
CreatePeer(m) ==
  /\ peer' = [peer EXCEPT ![m] = "new"]
  /\ connectionTimeout' = [connectionTimeout EXCEPT ![m] = TRUE]
  /\ createPeerPromise' = [createPeerPromise EXCEPT ![m] = "pending"]

\* The transport emits 'signal' (once: trickle is off); a responder has a
\* local descriptor only after it was given the offer.
PeerSignal(m) ==
  /\ peer[m] = "new"
  /\ ~signalled[m]
  /\ IsInitiator(m) \/ fed[m]
  /\ signalled' = [signalled EXCEPT ![m] = TRUE]
  /\ createPeerPromise' = [createPeerPromise EXCEPT ![m] = Settle(@, "resolved")]
  /\ UNCHANGED <<pairVars, fed, flowVars, subVars>>

\* A timer callback that also destroys the transport (whose 'close' event
\* runs the handler).
ConnectionTimeoutDestroys(m) ==
  /\ connectionTimeout[m]
  /\ PeerClose(m)
  /\ createPeerPromise' = [createPeerPromise EXCEPT ![m] = Settle(@, "rejected")]
  /\ UNCHANGED <<fed, signalled, flowVars, subVars>>

\* The CONNECTION_TIMEOUT timer runs: cleanup() and reject().
ConnectionTimeoutFires(m) ==
  /\ connectionTimeout[m]
  /\ connectionTimeout' = [connectionTimeout EXCEPT ![m] = FALSE]
  /\ createPeerPromise' = [createPeerPromise EXCEPT ![m] = Settle(@, "rejected")]
  /\ UNCHANGED <<peer, xferVars, onDisconnected, fed, signalled, flowVars, subVars>>

\* The transport emits 'connect': the timer is cleared.
PeerConnect(m) ==
  /\ peer[m] = "new"
  /\ fed[m]
  /\ IsInitiator(m) \/ signalled[m]
  /\ peer' = [peer EXCEPT ![m] = "connected"]
  /\ connectionTimeout' = [connectionTimeout EXCEPT ![m] = FALSE]
  /\ UNCHANGED <<xferVars, onDisconnected, negVars>>

\* The transport fails: 'error' (cleanup(), reject(err)), then 'close'.
PeerError(m) ==
  /\ PeerClose(m)
  /\ createPeerPromise' = [createPeerPromise EXCEPT ![m] = Settle(@, "rejected")]
  /\ UNCHANGED <<fed, signalled, flowVars, subVars>>

\* connectToPeer does not throw: there is a transport and it takes the
\* descriptor.
CanConnectToPeer(m) == peer[m] \in {"new", "connected"}

(* ----------------------------- Receiver.tsx ---------------------------- *)
\* handleOfferReceived up to its await: the offer text is parsed, a manager
\* is made and createPeer() is awaited.  A text that does not parse goes to
\* the catch block.
RxOfferReceived(wellFormed) ==
  /\ rxPc = "idle"
  /\ IF wellFormed
       THEN /\ CreatePeer("rcv")
            /\ rxPc' = "awaitPeer"
            /\ UNCHANGED rxError
       ELSE /\ rxError' = TRUE
            /\ rxPc' = "failed"
            /\ UNCHANGED <<peer, connectionTimeout, createPeerPromise>>
  /\ UNCHANGED <<xferVars, onDisconnected, fed, signalled, rxStep, txPc, txStep, txError,
                 selectedFile, sendTimer, timerFired, subVars>>

\* createPeer() has settled: connectToPeer(offerData) and step 'answer', or
\* the catch block.
RxResume ==
  /\ rxPc = "awaitPeer"
  /\ createPeerPromise["rcv"] # "pending"
  /\ IF createPeerPromise["rcv"] = "resolved" /\ CanConnectToPeer("rcv")
       THEN /\ fed' = [fed EXCEPT !["rcv"] = TRUE]
            /\ rxStep' = "answer"
            /\ rxPc' = "done"
            /\ UNCHANGED rxError
       ELSE /\ rxError' = TRUE
            /\ rxPc' = "failed"
            /\ UNCHANGED <<fed, rxStep>>
  /\ UNCHANGED <<pairVars, createPeerPromise, signalled, txPc, txStep, txError, selectedFile,
                 sendTimer, timerFired, subVars>>

(* ------------------------------ Sender.tsx ----------------------------- *)
\* createOffer up to its await, with a file selected.
TxCreateOffer(f) ==
  /\ txPc = "idle"
  /\ selectedFile' = f
  /\ CreatePeer("snd")
  /\ txPc' = "awaitPeer"
  /\ UNCHANGED <<xferVars, onDisconnected, fed, signalled, rxPc, rxStep, rxError, txStep,
                 txError, sendTimer, timerFired, subVars>>

\* createPeer() has settled: step 'offer', or the catch block.
TxResume ==
  /\ txPc = "awaitPeer"
  /\ createPeerPromise["snd"] # "pending"
  /\ IF createPeerPromise["snd"] = "resolved"
       THEN txStep' = "offer" /\ txPc' = "offer" /\ UNCHANGED txError
       ELSE txError' = TRUE /\ txPc' = "failed" /\ UNCHANGED txStep
  /\ UNCHANGED <<pairVars, createPeerPromise, fed, signalled, rxPc, rxStep, rxError,
                 selectedFile, sendTimer, timerFired, subVars>>

\* handleAnswerReceived: connectToPeer(answerData), then a 1000 ms timer.
TxAnswerReceived ==
  /\ txPc = "offer"
  /\ IF CanConnectToPeer("snd")
       THEN /\ fed' = [fed EXCEPT !["snd"] = TRUE]
            /\ sendTimer' = TRUE
            /\ txPc' = "answered"
            /\ UNCHANGED txError
       ELSE /\ txError' = TRUE
            /\ txPc' = "failed"
            /\ UNCHANGED <<fed, sendTimer>>
  /\ UNCHANGED <<pairVars, createPeerPromise, signalled, rxPc, rxStep, rxError, txStep,
                 selectedFile, timerFired, subVars>>

\* The 1000 ms timer runs: sendFile is called if the manager is connected
\* by now, and never otherwise.
TxTimer ==
  /\ sendTimer
  /\ sendTimer' = FALSE
  /\ timerFired' = TRUE
  /\ IF peer["snd"] = "connected"
       THEN /\ txStep' = "transfer"
            /\ SendFileBegin(1, selectedFile)
       ELSE UNCHANGED <<txStep, pairVars>>
  /\ UNCHANGED <<createPeerPromise, fed, signalled, rxPc, rxStep, rxError, txPc, txError,
                 selectedFile, subVars>>

(* ------------------- ChatWebRTCManager.createAnswer -------------------- *)
Offers == [subscriberId : Ids \cup {0}]

\* createAnswer that stores the offer's subscriberId before it looks at it.
CreateAnswerStoresFirst(s, offer) ==
  /\ subscriberId' = [subscriberId EXCEPT ![s] = offer.subscriberId]
  /\ IF offer.subscriberId = 0
       THEN UNCHANGED <<answerPromise, tSub, subErrFired, subCloseFired>>
       ELSE /\ answerPromise' = [answerPromise EXCEPT ![s] = "pending"]
            /\ tSub' = [tSub EXCEPT ![s] = "new"]
            /\ subErrFired' = subErrFired \ {s}
            /\ subCloseFired' = subCloseFired \ {s}
  /\ UNCHANGED <<createPeerPromise, fed, signalled, flowVars, subDisconnected>>

\* createAnswer on subscriber instance s: an offer without subscriberId is
\* rejected, whatever the instance holds, and changes nothing; else the id
\* is stored, a responder transport is made and given the offer, and the
\* promise resolves in the 'signal' handler only.  answerPromise[s], tSub[s]
\* and the 'error' / 'close' marks of s are those of the call that made the
\* present host link of s: a further call replaces this.hostPeer and leaves
\* the transport of the call before it to itself.
CreateAnswer(s, offer) ==
  /\ IF offer.subscriberId = 0
       THEN UNCHANGED <<answerPromise, subscriberId, tSub, subErrFired, subCloseFired>>
       ELSE /\ answerPromise' = [answerPromise EXCEPT ![s] = "pending"]
            /\ subscriberId' = [subscriberId EXCEPT ![s] = offer.subscriberId]
            /\ tSub' = [tSub EXCEPT ![s] = "new"]
            /\ subErrFired' = subErrFired \ {s}
            /\ subCloseFired' = subCloseFired \ {s}
  /\ UNCHANGED <<createPeerPromise, fed, signalled, flowVars, subDisconnected>>

\* The subscriber's transport emits 'signal': resolve(signalData).
SubSignal(s) ==
  /\ tSub[s] = "new"
  /\ answerPromise[s] = "pending"
  /\ answerPromise' = [answerPromise EXCEPT ![s] = "resolved"]
  /\ UNCHANGED <<createPeerPromise, fed, signalled, flowVars, tSub, subscriberId, subErrFired,
                 subCloseFired, subDisconnected>>

\* The subscriber's transport emits 'error': onDisconnectedCallback.
SubPeerError(s) ==
  /\ tSub[s] # "none"
  /\ s \notin subErrFired
  /\ subErrFired' = subErrFired \cup {s}
  /\ tSub' = [tSub EXCEPT ![s] = "destroyed"]
  /\ subDisconnected' = [subDisconnected EXCEPT ![s] = @ + 1]
  /\ UNCHANGED <<createPeerPromise, fed, signalled, flowVars, answerPromise, subscriberId,
                 subCloseFired>>

\* The subscriber's transport emits 'close': onDisconnectedCallback.
SubPeerClose(s) ==
  /\ tSub[s] # "none"
  /\ s \notin subCloseFired
  /\ subCloseFired' = subCloseFired \cup {s}
  /\ tSub' = [tSub EXCEPT ![s] = "destroyed"]
  /\ subDisconnected' = [subDisconnected EXCEPT ![s] = @ + 1]
  /\ UNCHANGED <<createPeerPromise, fed, signalled, flowVars, answerPromise, subscriberId,
                 subErrFired>>

\* destroy() on a subscriber instance: the host link is destroyed (its
\* 'close' handler runs onDisconnectedCallback) and set to null; the maps
\* of a subscriber instance are empty already, and this.fileTransfers is
\* not touched.
SubDestroy(s) ==
  /\ tSub' = [tSub EXCEPT ![s] = "none"]
  /\ subDisconnected' =
       [subDisconnected EXCEPT ![s] = IF tSub[s] \in {"new", "connected"} THEN @ + 1 ELSE @]
  /\ subCloseFired' = IF tSub[s] \in {"new", "connected"} THEN subCloseFired \cup {s}
                                                          ELSE subCloseFired
  /\ UNCHANGED <<createPeerPromise, fed, signalled, flowVars, answerPromise, subscriberId,
                 subErrFired>>

\* Nothing has been negotiated.
NegIdle ==
  /\ createPeerPromise = [m \in Mgr |-> "none"]
  /\ fed = [m \in Mgr |-> FALSE]
  /\ signalled = [m \in Mgr |-> FALSE]
  /\ rxPc = "idle"
  /\ rxStep = "scan"
  /\ rxError = FALSE
  /\ txPc = "idle"
  /\ txStep = "select"
  /\ txError = FALSE
  /\ selectedFile = NoFile
  /\ sendTimer = FALSE
  /\ timerFired = FALSE
  /\ answerPromise = [s \in Ids |-> "none"]
  /\ tSub = [s \in Ids |-> "none"]
  /\ subscriberId = [s \in Ids |-> 0]
  /\ subErrFired = {}
  /\ subCloseFired = {}
  /\ subDisconnected = [s \in Ids |-> 0]

\* The subscriber instances of the ids 1 .. k have answered their offer and
\* their host link is connected.
SubsLinked(k) ==
  /\ createPeerPromise = [m \in Mgr |-> "none"]
  /\ fed = [m \in Mgr |-> FALSE]
  /\ signalled = [m \in Mgr |-> FALSE]
  /\ rxPc = "idle"
  /\ rxStep = "scan"
  /\ rxError = FALSE
  /\ txPc = "idle"
  /\ txStep = "select"
  /\ txError = FALSE
  /\ selectedFile = NoFile
  /\ sendTimer = FALSE
  /\ timerFired = FALSE
  /\ answerPromise = [s \in Ids |-> IF s <= k THEN "resolved" ELSE "none"]
  /\ tSub = [s \in Ids |-> IF s <= k THEN "connected" ELSE "none"]
  /\ subscriberId = [s \in Ids |-> IF s <= k THEN s ELSE 0]
  /\ subErrFired = {}
  /\ subCloseFired = {}
  /\ subDisconnected = [s \in Ids |-> 0]

(* ====================================================================== *)
(*             the chunk arithmetic of sendFile, at full scale             *)
(* ====================================================================== *)
\* Both sendFile methods cut the file with the same arithmetic.  Here it
\* runs over sizes alone, with the CHUNK_SIZE of the source (the byte-level
\* transfers above use the small ChunkSize).
CHUNK_SIZE == 16384

VARIABLES
  cPc,      \* where the sendFile stands: "idle", "loop" or "done"
  cSize,    \* file.size
  cChunks,  \* const chunks = Math.ceil(file.size / CHUNK_SIZE)
  cI,       \* the loop variable i
  cSent     \* arrayBuffer.byteLength of every binary frame sent, in order

chunkVars == <<cPc, cSize, cChunks, cI, cSent>>

ChunkIdle == cPc = "idle" /\ cSize = 0 /\ cChunks = 0 /\ cI = 0 /\ cSent = <<>>

\* The sizes tried: around every multiple of CHUNK_SIZE up to MaxBlocks of
\* them, and the 50000 bytes of scenario A.
Sizes ==
  {k * CHUNK_SIZE + r : k \in 0..MaxBlocks, r \in {0, 1, CHUNK_SIZE - 1}} \cup {50000}

\* file.slice(start, end).size: both ends are clamped to the size.
BlobSliceSize(size, start, end) ==
  IF Min(end, size) > Min(start, size) THEN Min(end, size) - Min(start, size) ELSE 0

\* A loop that cuts every chunk to the full CHUNK_SIZE.
PlanChunkUnclamped ==
  /\ cPc = "loop"
  /\ cSent' = Append(cSent, CHUNK_SIZE)
  /\ cI' = cI + 1
  /\ cPc' = IF cI + 1 < cChunks THEN "loop" ELSE "done"
  /\ UNCHANGED <<cSize, cChunks>>

\* sendFile(file) up to the loop: chunks is computed from file.size.
PlanBegin(size) ==
  /\ cPc = "idle"
  /\ cSize' = size
  /\ cChunks' = CeilDiv(size, CHUNK_SIZE)
  /\ cI' = 0
  /\ cPc' = IF 0 < CeilDiv(size, CHUNK_SIZE) THEN "loop" ELSE "done"
  /\ UNCHANGED cSent

\* One turn of the loop: start, end, file.slice(start, end), peer.send of
\* its arrayBuffer, i++.
PlanChunk ==
  /\ cPc = "loop"
  /\ cSent' = Append(cSent, BlobSliceSize(cSize, cI * CHUNK_SIZE,
                                         Min(cI * CHUNK_SIZE + CHUNK_SIZE, cSize)))
  /\ cI' = cI + 1
  /\ cPc' = IF cI + 1 < cChunks THEN "loop" ELSE "done"
  /\ UNCHANGED <<cSize, cChunks>>

(* ====================================================================== *)
(*                              the systems                                *)
(* ------------- the answer envelope and the offer it echoes ------------- *)
\* createAnswer keeps the offer's subscriberId in a const of its own; the
\* 'signal' handler of the transport it made resolves the call's promise
\* with an envelope built from that const.  A further createAnswer on the
\* same instance replaces this.hostPeer and this.subscriberId; the transport
\* of the call before it stays alive and may still emit 'signal'.
VARIABLES
  linkOffer,          \* [Ids] subscriberId of the offer this.hostPeer was made from, 0 if none
  stale,              \* [Ids] closure ids of replaced transports that have yet to emit 'signal'
  returned            \* [Ids] envelopes createAnswer resolved with, each with its offer's id

echoVars == <<linkOffer, stale, returned>>

EchoIdle ==
  /\ linkOffer = [s \in Ids |-> 0]
  /\ stale = [s \in Ids |-> {}]
  /\ returned = [s \in Ids |-> {}]

\* An envelope built from the instance's field instead of the call's const.
AnswerEnvelopeFromInstance(s, closureId) ==
  [subscriberId |-> subscriberId[s], subscriberName |-> "Ann"]

\* The envelope the 'signal' handler of a createAnswer call resolves with.
AnswerEnvelope(s, closureId) == [subscriberId |-> closureId, subscriberName |-> "Ann"]

(* ------------------ what was sent on each transport -------------------- *)
\* Every frame given to peer.send, transport by transport, in the order of
\* the send calls and with the sendFile call that made it (0: sendMessage).
\* Link 0 is the pair transport, link id the host's transport of subscriber
\* id.
VARIABLE sent

orderVars == <<sent>>

Links == Ids \cup {0}

OrderIdle == sent = [t \in Links |-> <<>>]

\* The frames this step appended to the wire of link t.
NewOn(t) ==
  IF t = 0 THEN SubSeq(wire', Len(wire) + 1, Len(wire'))
           ELSE SubSeq(h2s'[t], Len(h2s[t]) + 1, Len(h2s'[t]))

\* The step was made by call `by`.
Note(by) ==
  sent' = [t \in Links |->
             sent[t] \o [k \in 1..Len(NewOn(t)) |-> [by |-> by, frame |-> NewOn(t)[k]]]]

(* --------------- the frames a manager is handed, one by one ------------ *)
\* The frame the last step gave to handleReceivedData, the instance it was
\* given to (mgr for a pair manager, sub for a subscriber instance), how
\* many chunks the transfer it names held before; and the instances that
\* have processed a 'fileStart' frame.
VARIABLES rxLast, rxStarted

recvVars == <<rxLast, rxStarted>>

NoRx == [mgr |-> "", sub |-> 0, frame |-> TextFrame([type |-> "none", data |-> Null]), held |-> 0]

RecvIdle == rxLast = NoRx /\ rxStarted = [mgrs |-> {}, subs |-> {}]

(* ====================================================================== *)
\* MainApp's AppMode: the file-transfer app or the chat app is running.
VARIABLE appMode

VARIABLES
  lastCall,   \* the last call made on a manager and how it ended
  s2h,        \* [Ids] frames sent by the subscriber, not yet delivered to the host
  due         \* [Ids] host sendMessage calls made while id was a connected target

apiVars == <<lastCall, s2h, due>>

vars == <<pairVars, chatVars, negVars, appMode, chunkVars, echoVars, orderVars, recvVars, apiVars>>

\* No call has been made.
NoCall ==
  [op |-> "none", who |-> 0, mgr |-> "", targets |-> {}, result |-> "none", sends |-> 0,
   tick |-> 0]

ApiIdle ==
  /\ lastCall = NoCall
  /\ s2h = [s \in Ids |-> <<>>]
  /\ due = [id \in Ids |-> 0]

\* A host instance after construction; no subscriber instance has a link.
ChatIdle ==
  /\ peers = {}
  /\ subscribers = NoSubscribers
  /\ tHost = [id \in Ids |-> "none"]
  /\ hostFed = [id \in Ids |-> FALSE]
  /\ errFired = {}
  /\ closeFired = {}
  /\ offerPromise = [id \in Ids |-> "none"]
  /\ nextId = 1
  /\ now = 0
  /\ h2s = [id \in Ids |-> <<>>]
  /\ fileTransfers = [id \in Ids |-> <<>>]
  /\ onMessage = [id \in Ids |-> <<>>]
  /\ onFileProgress = [id \in Ids |-> Null]
  /\ hostOnMessage = <<>>
  /\ hostProgress = 0
  /\ joinedCount = [id \in Ids |-> 0]
  /\ leftCount = [id \in Ids |-> 0]
  /\ okAnswers = [id \in Ids |-> 0]
  /\ tornDown = {}
  /\ hpc = [c \in Calls |-> "idle"]
  /\ hfile = [c \in Calls |-> NoFile]
  /\ htargets = [c \in Calls |-> {}]
  /\ hi = [c \in Calls |-> 0]
  /\ hLoss = [c \in Calls |-> FALSE]
  /\ hLate = [c \in Calls |-> FALSE]

Welcome ==
  [type |-> "text", id |-> 0, content |-> "Welcome to the chat!", receiving |-> FALSE,
   sender |-> "host", url |-> FALSE, data |-> <<>>]

\* The host after createOffer, 'signal', processAnswer and 'connect' for
\* each of the ids 1 .. k: k subscribers joined and connected.  The welcome
\* messages were echoed locally only: no transport was connected yet when
\* processAnswer ran.
ChatJoined(k) ==
  /\ peers = 1..k
  /\ subscribers = [id \in 1..k |-> [id |-> id, name |-> "Ann", connected |-> TRUE, joinedAt |-> id - 1]]
  /\ tHost = [id \in Ids |-> IF id <= k THEN "connected" ELSE "none"]
  /\ hostFed = [id \in Ids |-> id <= k]
  /\ errFired = {}
  /\ closeFired = {}
  /\ offerPromise = [id \in Ids |-> IF id <= k THEN "resolved" ELSE "none"]
  /\ nextId = k + 1
  /\ now = k
  /\ h2s = [id \in Ids |-> <<>>]
  /\ fileTransfers = [id \in Ids |-> <<>>]
  /\ onMessage = [id \in Ids |-> <<>>]
  /\ onFileProgress = [id \in Ids |-> Null]
  /\ hostOnMessage = [j \in 1..k |-> Welcome]
  /\ hostProgress = 0
  /\ joinedCount = [id \in Ids |-> IF id <= k THEN 1 ELSE 0]
  /\ leftCount = [id \in Ids |-> 0]
  /\ okAnswers = [id \in Ids |-> IF id <= k THEN 1 ELSE 0]
  /\ tornDown = {}
  /\ hpc = [c \in Calls |-> "idle"]
  /\ hfile = [c \in Calls |-> NoFile]
  /\ htargets = [c \in Calls |-> {}]
  /\ hi = [c \in Calls |-> 0]
  /\ hLoss = [c \in Calls |-> FALSE]
  /\ hLate = [c \in Calls |-> FALSE]

\* Two WebRTCManager instances after construction.
PairIdle ==
  /\ peer = [m \in Mgr |-> "null"]
  /\ fileData = [m \in Mgr |-> Null]
  /\ receivedChunks = [m \in Mgr |-> EmptyMap]
  /\ expectedChunkIndex = [m \in Mgr |-> 0]
  /\ connectionTimeout = [m \in Mgr |-> FALSE]
  /\ wire = <<>>
  /\ pc = [c \in Calls |-> "idle"]
  /\ sfile = [c \in Calls |-> NoFile]
  /\ si = [c \in Calls |-> 0]
  /\ onFileReceived = <<>>
  /\ onProgress = [m \in Mgr |-> Null]
  /\ onDisconnected = [m \in Mgr |-> 0]
  /\ lossInFlight = [c \in Calls |-> FALSE]
  /\ lateEffect = [c \in Calls |-> FALSE]

(* ====================================================================== *)
(*                 the managers' methods, as they are called               *)
(* ====================================================================== *)
\* The ChatWebRTCManager instances: 0 is the one constructed with
\* isHost = true, s in Ids the subscriber instance that answers offer s.
Inst == {0} \cup Ids

\* An isHost flag that is set on every instance.
IsHostAlways(i) == TRUE

\* this.isHost
IsHost(i) == i = 0

\* The call op on who ended with result; sends counts its peer.send calls
\* and tick tells one call from the one before it.
Called(op, who, mgr, targets, result, sends) ==
  lastCall' = [op |-> op, who |-> who, mgr |-> mgr, targets |-> targets, result |-> result,
               sends |-> sends, tick |-> 1 - lastCall.tick]

\* A step that is no method call: an event of a transport, a timer, a frame
\* arriving.
Forget == lastCall' = NoCall /\ UNCHANGED <<s2h, due>>

\* createOffer() on instance i: only the host may call it.
CallCreateOffer(i) ==
  /\ IF IsHost(i)
       THEN CreateOffer /\ Called("createOffer", i, "", {}, "pending", 0)
       ELSE UNCHANGED chatVars /\ Called("createOffer", i, "", {}, "rejected", 0)
  /\ UNCHANGED <<s2h, due>>

\* processAnswer(a) on instance i: only the host may call it.
CallProcessAnswer(i, a) ==
  /\ IF IsHost(i)
       THEN /\ ProcessAnswer(a)
            /\ Called("processAnswer", i, "", {a.subscriberId},
                      IF AnswerAccepted(a) THEN "resolved" ELSE "rejected", 0)
       ELSE UNCHANGED chatVars /\ Called("processAnswer", i, "", {a.subscriberId}, "rejected", 0)
  /\ UNCHANGED <<s2h, due>>

\* createAnswer(offer) on instance i: only a subscriber may call it.
CallCreateAnswer(i, offer) ==
  /\ IF IsHost(i)
       THEN UNCHANGED negVars /\ Called("createAnswer", i, "", {offer.subscriberId}, "rejected", 0)
       ELSE /\ CreateAnswer(i, offer)
            /\ Called("createAnswer", i, "", {offer.subscriberId},
                      IF offer.subscriberId = 0 THEN "rejected" ELSE "pending", 0)
  /\ UNCHANGED <<s2h, due>>

\* sendFile(f, targets) on instance i as call c: only the host may call it.
CallSendFile(i, c, f, targets) ==
  /\ IF IsHost(i)
       THEN ChatSendFileBegin(c, f, targets) /\ Called("sendFile", i, "", targets, "pending", 0)
       ELSE UNCHANGED chatVars /\ Called("sendFile", i, "", targets, "rejected", 0)
  /\ UNCHANGED <<s2h, due>>

\* The message a subscriber instance makes: it carries this.subscriberId.
SubscriberMessage(s, content) ==
  [type |-> "text", id |-> 0, content |-> content, receiving |-> FALSE, sender |-> "subscriber",
   url |-> FALSE, data |-> <<>>, subscriberId |-> subscriberId[s]]

\* The message the host makes (its subscriberId is undefined).
TextMessage(content, sender) ==
  [type |-> "text", id |-> 0, content |-> content, receiving |-> FALSE, sender |-> sender,
   url |-> FALSE, data |-> <<>>]

\* A subscriber branch that shows the message only if it was sent.
SubSendMessageEchoIfSent(s, content, throws) ==
  /\ s2h' = [s2h EXCEPT ![s] =
       IF tSub[s] = "connected" /\ ~throws
         THEN Append(@, TextFrame([type |-> "message",
                                   data |-> SubscriberMessage(s, content)]))
         ELSE @]
  /\ onMessage' = [onMessage EXCEPT ![s] =
       IF tSub[s] = "connected" /\ ~throws
         THEN Append(@, SubscriberMessage(s, content)) ELSE @]

\* sendMessage, subscriber branch: one frame on the host link if it is there
\* and connected (a throwing send is caught and puts nothing on the link),
\* then the local message callback.
SubSendMessage(s, content, throws) ==
  /\ s2h' = [s2h EXCEPT ![s] =
       IF tSub[s] = "connected" /\ ~throws
         THEN Append(@, TextFrame([type |-> "message",
                                   data |-> SubscriberMessage(s, content)]))
         ELSE @]
  /\ onMessage' = [onMessage EXCEPT ![s] = Append(@, SubscriberMessage(s, content))]

\* sendMessage(content, targets) on instance i.  The host sends one frame to
\* every target whose transport is there and connected (host sends are
\* taken not to throw); a subscriber sends one frame on its host link if
\* that is connected, and the send may throw.  Either way the local message
\* callback runs once.
CallSendMessage(i, content, targets, throws) ==
  IF IsHost(i)
    THEN /\ HostSendMessage(content, targets)
         /\ Called("sendMessage", i, "", targets, "returned",
                   Cardinality({id \in targets : HostCanSend(id)}))
         /\ due' = [id \in Ids |->
              IF id \in targets /\ id \in DOMAIN subscribers /\ tHost[id] = "connected"
                THEN due[id] + 1 ELSE due[id]]
         /\ UNCHANGED <<peers, subscribers, tHost, hostFed, errFired, closeFired, offerPromise,
                        nextId, now, fileTransfers, onMessage, onFileProgress, hostProgress,
                        joinedCount, leftCount, okAnswers, tornDown, hpc, hfile, htargets, hi,
                        hLoss, hLate, s2h>>
    ELSE /\ SubSendMessage(i, content, throws)
         /\ Called("sendMessage", i, "", {}, "returned", IF tSub[i] = "connected" THEN 1 ELSE 0)
         /\ UNCHANGED <<peers, subscribers, tHost, hostFed, errFired, closeFired, offerPromise,
                        nextId, now, h2s, fileTransfers, onFileProgress, hostOnMessage,
                        hostProgress, joinedCount, leftCount, okAnswers, tornDown, hpc, hfile,
                        htargets, hi, hLoss, hLate, due>>

\* The subscriber's transport emits 'connect': it has produced its answer
\* and the host has applied it to the transport of the id answered.
SubPeerConnect(s) ==
  /\ tSub[s] = "new"
  /\ answerPromise[s] = "resolved"
  /\ subscriberId[s] \in Ids /\ hostFed[subscriberId[s]]
  /\ tSub' = [tSub EXCEPT ![s] = "connected"]
  /\ UNCHANGED <<createPeerPromise, fed, signalled, flowVars, answerPromise, subscriberId,
                 subErrFired, subCloseFired, subDisconnected>>

\* The envelopes connectToPeer may be given: with or without metadata.
Envelopes == [metadata : {Null, [name |-> "b", size |-> 1, type |-> "b", chunks |-> 1]}]

\* connectToPeer(env) on manager m: throws if there is no transport; else
\* the envelope's metadata, if any, becomes this.fileData and the descriptor
\* is given to the transport, which throws if it is destroyed (the catch
\* block runs cleanup() and rethrows).
ConnectToPeer(m, env) ==
  /\ IF peer[m] = "null"
       THEN /\ Called("connectToPeer", 0, m, {}, "threw", 0)
            /\ UNCHANGED <<fileData, connectionTimeout, fed>>
       ELSE /\ fileData' = [fileData EXCEPT ![m] = IF env.metadata # Null THEN env.metadata ELSE @]
            /\ IF peer[m] = "destroyed"
                 THEN /\ connectionTimeout' = [connectionTimeout EXCEPT ![m] = FALSE]
                      /\ Called("connectToPeer", 0, m, {}, "threw", 0)
                      /\ UNCHANGED fed
                 ELSE /\ fed' = [fed EXCEPT ![m] = TRUE]
                      /\ Called("connectToPeer", 0, m, {}, "returned", 0)
                      /\ UNCHANGED connectionTimeout
  /\ UNCHANGED <<peer, receivedChunks, expectedChunkIndex, wire, pc, sfile, si, onFileReceived,
                 onProgress, onDisconnected, lossInFlight, lateEffect, createPeerPromise,
                 signalled, flowVars, subVars, s2h, due>>

\* destroy() on the pair manager m.
CallDestroy(m) ==
  /\ Destroy(m)
  /\ Called("destroy", 0, m, {}, "returned", 0)
  /\ UNCHANGED <<s2h, due>>

\* destroy() on the ChatWebRTCManager instance i.
CallChatDestroy(i) ==
  /\ IF IsHost(i)
       THEN HostDestroy /\ UNCHANGED negVars
       ELSE SubDestroy(i) /\ UNCHANGED chatVars
  /\ Called("destroy", i, "", {}, "returned", 0)
  /\ UNCHANGED <<s2h, due>>

notPair == <<chatVars, negVars, appMode, chunkVars, echoVars, orderVars, recvVars, apiVars>>
notChat == <<pairVars, negVars, appMode, chunkVars, echoVars, orderVars, recvVars, apiVars>>

(* ---- the pair transfer: concurrent sendFile calls and the receiver ---- *)
PairXferInit == appMode = "file-transfer" /\ PairInit /\ ChatIdle /\ NegIdle /\ ApiIdle /\ ChunkIdle /\ EchoIdle /\ OrderIdle /\ RecvIdle

PairXferNext ==
  \/ \E c \in Calls : \E f \in FilesOf(c) : SendFileBegin(c, f) /\ UNCHANGED notPair
  \/ \E c \in Calls : SendFileChunk(c) /\ UNCHANGED notPair
  \/ \E c \in Calls : SendFileDelay(c) /\ UNCHANGED notPair
  \/ Deliver /\ UNCHANGED notPair

SpecPair == PairXferInit /\ [][PairXferNext]_vars

(* ---- one subscriber, concurrent host sendFile calls (multiplexing) ---- *)
MuxInit == appMode = "chat-broadcaster" /\ ChatJoined(1) /\ PairIdle /\ NegIdle /\ ApiIdle /\ ChunkIdle /\ EchoIdle /\ OrderIdle /\ RecvIdle

MuxNext ==
  \/ \E c \in Calls : \E f \in FilesOf(c) :
       ChatSendFileBegin(c, f, DOMAIN subscribers) /\ UNCHANGED notChat
  \/ \E c \in Calls : ChatSendFileChunk(c) /\ UNCHANGED notChat
  \/ \E c \in Calls : ChatSendFileDelay(c) /\ UNCHANGED notChat
  \/ ChatDeliver(1) /\ UNCHANGED notChat

SpecMux == MuxInit /\ [][MuxNext]_vars

(* ------- every subscriber, one host sendFile call (fan-out) ------------ *)
FanInit ==
  appMode = "chat-broadcaster" /\ ChatJoined(NSubs) /\ PairIdle /\ NegIdle /\ ApiIdle /\ ChunkIdle /\ EchoIdle /\ OrderIdle /\ RecvIdle

FanNext ==
  \/ \E f \in FilesOf(1) : ChatSendFileBegin(1, f, DOMAIN subscribers) /\ UNCHANGED notChat
  \/ ChatSendFileChunk(1) /\ UNCHANGED notChat
  \/ ChatSendFileDelay(1) /\ UNCHANGED notChat
  \/ \E s \in Ids : ChatDeliver(s) /\ UNCHANGED notChat

SpecFan == FanInit /\ [][FanNext]_vars

(* ------------- sendFile while the transport is torn down --------------- *)
LossInit ==
  /\ NegIdle /\ ApiIdle /\ ChunkIdle /\ EchoIdle /\ OrderIdle /\ RecvIdle
  /\ \/ appMode = "file-transfer" /\ PairInit /\ ChatIdle
     \/ appMode = "chat-broadcaster" /\ ChatJoined(NSubs) /\ PairIdle

PairMode == appMode = "file-transfer"
ChatMode == appMode = "chat-broadcaster"

LossNext ==
  \/ PairMode /\ \E f \in FilesOf(1) : SendFileBegin(1, f) /\ UNCHANGED notPair
  \/ PairMode /\ SendFileChunk(1) /\ UNCHANGED notPair
  \/ PairMode /\ SendFileDelay(1) /\ UNCHANGED notPair
  \/ PairMode /\ Deliver /\ UNCHANGED notPair
  \/ PairMode /\ \E m \in Mgr : PeerClose(m) /\ UNCHANGED notPair
  \/ PairMode /\ \E m \in Mgr : Destroy(m) /\ UNCHANGED notPair
  \/ ChatMode /\ \E f \in FilesOf(1) :
       ChatSendFileBegin(1, f, DOMAIN subscribers) /\ UNCHANGED notChat
  \/ ChatMode /\ ChatSendFileChunk(1) /\ UNCHANGED notChat
  \/ ChatMode /\ ChatSendFileDelay(1) /\ UNCHANGED notChat
  \/ ChatMode /\ \E id \in Ids : HostPeerError(id) /\ UNCHANGED notChat
  \/ ChatMode /\ \E id \in Ids : HostPeerClose(id) /\ UNCHANGED notChat
  \/ ChatMode /\ HostDestroy /\ UNCHANGED notChat

SpecLoss == LossInit /\ [][LossNext]_vars

(* ------------------------- host membership ----------------------------- *)
Answers == [subscriberId : Ids \cup {0}, subscriberName : {"Ann", ""}]

HostInit == appMode = "chat-broadcaster" /\ ChatIdle /\ PairIdle /\ NegIdle /\ ApiIdle /\ ChunkIdle /\ EchoIdle /\ OrderIdle /\ RecvIdle

\* The targets a host sendMessage may be given: any ids, or none (then
\* every key of this.subscribers).
TargetSets == SUBSET Ids \cup {DOMAIN subscribers}

world == <<pairVars, negVars, appMode, chunkVars, echoVars, orderVars, recvVars>>

HostNext ==
  \/ CallCreateOffer(0) /\ UNCHANGED world
  \/ \E id \in Ids : HostSignal(id) /\ UNCHANGED world /\ Forget
  \/ \E a \in Answers : CallProcessAnswer(0, a) /\ UNCHANGED world
  \/ \E id \in Ids : HostPeerConnect(id) /\ UNCHANGED world /\ Forget
  \/ \E id \in Ids : HostPeerError(id) /\ UNCHANGED world /\ Forget
  \/ \E id \in Ids : HostPeerClose(id) /\ UNCHANGED world /\ Forget
  \/ HostDestroy /\ UNCHANGED world /\ Forget

SayNext ==
  \/ CallCreateOffer(0) /\ UNCHANGED world
  \/ \E id \in Ids : HostSignal(id) /\ UNCHANGED world /\ Forget
  \/ \E a \in Answers : CallProcessAnswer(0, a) /\ UNCHANGED world
  \/ \E id \in Ids : HostPeerConnect(id) /\ UNCHANGED world /\ Forget
  \/ \E id \in Ids : HostPeerClose(id) /\ UNCHANGED world /\ Forget
  \/ \E T \in TargetSets :
       Len(hostOnMessage) < MaxLog /\ CallSendMessage(0, "hello", T, FALSE) /\ UNCHANGED world
  \/ \E s \in Ids : tHost[s] = "connected" /\ ChatDeliver(s) /\ UNCHANGED world /\ Forget

SpecSay == HostInit /\ [][SayNext]_vars

SpecHost == HostInit /\ [][HostNext]_vars

(* ------------------- host and subscribers, end to end ------------------ *)
\* The answer subscriber instance s hands over once createAnswer resolved.
AnswerOf(s) == [subscriberId |-> subscriberId[s], subscriberName |-> "Ann"]

ChatInit == appMode = "chat-broadcaster" /\ ChatIdle /\ PairIdle /\ NegIdle /\ ApiIdle /\ ChunkIdle /\ EchoIdle /\ OrderIdle /\ RecvIdle

chatRest == <<pairVars, appMode, chunkVars, echoVars, orderVars, recvVars>>

ChatNext ==
  \/ CallCreateOffer(0) /\ UNCHANGED world
  \/ \E id \in Ids : HostSignal(id) /\ UNCHANGED world /\ Forget
  \/ \E s \in Ids : offerPromise[s] = "resolved" /\ answerPromise[s] = "none"
       /\ CallCreateAnswer(s, [subscriberId |-> s]) /\ UNCHANGED <<chatVars, chatRest>>
  \/ \E s \in Ids : SubSignal(s) /\ UNCHANGED <<chatVars, chatRest>> /\ Forget
  \/ \E s \in Ids : answerPromise[s] = "resolved"
       /\ CallProcessAnswer(0, AnswerOf(s)) /\ UNCHANGED world
  \/ \E id \in Ids : HostPeerConnect(id) /\ UNCHANGED world /\ Forget
  \/ \E s \in Ids : SubPeerConnect(s) /\ UNCHANGED <<chatVars, chatRest>> /\ Forget
  \/ \E id \in Ids : HostPeerClose(id) /\ UNCHANGED world /\ Forget
  \/ \E s \in Ids : SubPeerClose(s) /\ UNCHANGED <<chatVars, chatRest>> /\ Forget
  \/ Len(hostOnMessage) < MaxLog
       /\ CallSendMessage(0, "hello", DOMAIN subscribers, FALSE) /\ UNCHANGED world
  \/ \E s \in Ids : tSub[s] = "connected" /\ ChatDeliver(s) /\ UNCHANGED world /\ Forget

SpecChat == ChatInit /\ [][ChatNext]_vars

(* ------------- the subscriber instances and their methods -------------- *)
SubNext ==
  \/ CallCreateOffer(0) /\ UNCHANGED world
  \/ \E s \in Ids : CallCreateOffer(s) /\ UNCHANGED world
  \/ \E id \in Ids : HostSignal(id) /\ UNCHANGED world /\ Forget
  \/ \E s \in Ids : offerPromise[s] = "resolved" /\ answerPromise[s] = "none"
       /\ CallCreateAnswer(s, [subscriberId |-> s]) /\ UNCHANGED <<chatVars, chatRest>>
  \/ \E s \in Ids : CallCreateAnswer(s, [subscriberId |-> 0]) /\ UNCHANGED <<chatVars, chatRest>>
  \/ \E o \in Offers : CallCreateAnswer(0, o) /\ UNCHANGED <<chatVars, chatRest>>
  \/ \E s \in Ids : SubSignal(s) /\ UNCHANGED <<chatVars, chatRest>> /\ Forget
  \/ \E s \in Ids : answerPromise[s] = "resolved"
       /\ CallProcessAnswer(0, AnswerOf(s)) /\ UNCHANGED world
  \/ \E s \in Ids : CallProcessAnswer(s, [subscriberId |-> s, subscriberName |-> "Ann"])
       /\ UNCHANGED world
  \/ \E s \in Ids : SubPeerConnect(s) /\ UNCHANGED <<chatVars, chatRest>> /\ Forget
  \/ \E s \in Ids : SubPeerClose(s) /\ UNCHANGED <<chatVars, chatRest>> /\ Forget
  \/ \E s \in Ids : \E throws \in BOOLEAN :
       Len(onMessage[s]) < NCalls /\ CallSendMessage(s, "hi", {}, throws) /\ UNCHANGED world
  \/ \E s \in Ids : \E f \in {g \in FilesOf(1) : Len(g.data) = 1} :
       CallSendFile(s, 1, f, {}) /\ UNCHANGED world

SpecSub == ChatInit /\ [][SubNext]_vars

(* --------- createAnswer called again on one subscriber instance -------- *)
\* createAnswer(o) on subscriber instance s, noting which offer the new host
\* link answers and which transport it leaves behind.
EchoCreateAnswer(s, o) ==
  /\ CallCreateAnswer(s, o)
  /\ IF o.subscriberId = 0
       THEN UNCHANGED <<linkOffer, stale>>
       ELSE /\ linkOffer' = [linkOffer EXCEPT ![s] = o.subscriberId]
            /\ stale' = [stale EXCEPT ![s] =
                 IF tSub[s] = "new" /\ answerPromise[s] = "pending"
                   THEN @ \cup {linkOffer[s]} ELSE @]
  /\ UNCHANGED returned

\* 'signal' on the transport that is this.hostPeer.
EchoSubSignal(s) ==
  /\ SubSignal(s)
  /\ returned' = [returned EXCEPT ![s] =
       @ \cup {[offer |-> linkOffer[s], answer |-> AnswerEnvelope(s, linkOffer[s])]}]
  /\ UNCHANGED <<linkOffer, stale>>

\* 'signal' on a transport an earlier createAnswer made and a later one
\* replaced: the earlier call's promise resolves.
StaleSignal(s, id) ==
  /\ id \in stale[s]
  /\ stale' = [stale EXCEPT ![s] = @ \ {id}]
  /\ returned' = [returned EXCEPT ![s] =
       @ \cup {[offer |-> id, answer |-> AnswerEnvelope(s, id)]}]
  /\ UNCHANGED <<negVars, linkOffer>>

echoRest == <<pairVars, appMode, chunkVars, orderVars, recvVars>>

\* One subscriber instance (instance 1) answers offers, whichever id they carry.
EchoNext ==
  \/ CallCreateOffer(0) /\ UNCHANGED <<echoRest, negVars, echoVars>>
  \/ \E id \in Ids : HostSignal(id) /\ UNCHANGED <<echoRest, negVars, echoVars>> /\ Forget
  \/ \E s \in {1} : \E o \in Offers : EchoCreateAnswer(s, o) /\ UNCHANGED <<chatVars, echoRest>>
  \/ \E s \in {1} : EchoSubSignal(s) /\ UNCHANGED <<chatVars, echoRest>> /\ Forget
  \/ \E s \in {1} : \E id \in Ids : StaleSignal(s, id) /\ UNCHANGED <<chatVars, echoRest>> /\ Forget
  \/ \E s \in {1} : \E r \in returned[s] :
       CallProcessAnswer(0, r.answer) /\ UNCHANGED <<echoRest, negVars, echoVars>>
  \/ \E s \in {1} : SubPeerConnect(s) /\ UNCHANGED <<chatVars, echoRest, echoVars>> /\ Forget
  \/ \E s \in {1} : Len(onMessage[s]) < NCalls
       /\ CallSendMessage(s, "hi", {}, FALSE) /\ UNCHANGED <<echoRest, negVars, echoVars>>

SpecEcho == ChatInit /\ [][EchoNext]_vars

(* ------------- the order of the frames on each transport --------------- *)
\* Files whose bytes all carry the letter of their call.
PlainFiles(c) == {f \in FilesOf(c) : \A k \in DOMAIN f.data : f.data[k] = Tag(c)}

OrderInit ==
  /\ NegIdle /\ ApiIdle /\ ChunkIdle /\ EchoIdle /\ OrderIdle /\ RecvIdle
  /\ \/ appMode = "file-transfer" /\ PairInit /\ ChatIdle
     \/ appMode = "chat-broadcaster" /\ ChatJoined(1) /\ PairIdle

pairSide == <<chatVars, negVars, appMode, chunkVars, echoVars, recvVars, apiVars>>
chatSide == <<pairVars, negVars, appMode, chunkVars, echoVars, recvVars>>

OrderNext ==
  \/ PairMode /\ \E c \in Calls : \E f \in PlainFiles(c) :
       SendFileBegin(c, f) /\ UNCHANGED pairSide /\ Note(c)
  \/ PairMode /\ \E c \in Calls : SendFileChunk(c) /\ UNCHANGED pairSide /\ Note(c)
  \/ PairMode /\ \E c \in Calls : SendFileDelay(c) /\ UNCHANGED pairSide /\ Note(c)
  \/ PairMode /\ PeerClose("snd") /\ UNCHANGED pairSide /\ Note(0)
  \/ ChatMode /\ CallCreateOffer(0) /\ UNCHANGED chatSide /\ Note(0)
  \/ ChatMode /\ \E id \in Ids : HostSignal(id) /\ UNCHANGED chatSide /\ Forget /\ Note(0)
  \/ ChatMode /\ \E id \in Ids \ DOMAIN subscribers : offerPromise[id] = "resolved"
       /\ CallProcessAnswer(0, [subscriberId |-> id, subscriberName |-> "Ann"])
       /\ UNCHANGED chatSide /\ Note(0)
  \/ ChatMode /\ \E id \in Ids : HostPeerConnect(id) /\ UNCHANGED chatSide /\ Forget /\ Note(0)
  \/ ChatMode /\ \E c \in Calls : \E f \in PlainFiles(c) :
       CallSendFile(0, c, f, DOMAIN subscribers) /\ UNCHANGED chatSide /\ Note(c)
  \/ ChatMode /\ \E c \in Calls : ChatSendFileChunk(c) /\ UNCHANGED chatSide /\ Forget /\ Note(c)
  \/ ChatMode /\ \E c \in Calls : ChatSendFileDelay(c) /\ UNCHANGED chatSide /\ Forget /\ Note(c)
  \/ ChatMode /\ Len(hostOnMessage) < MaxLog
       /\ CallSendMessage(0, "hello", DOMAIN subscribers, FALSE) /\ UNCHANGED chatSide /\ Note(0)

SpecOrder == OrderInit /\ [][OrderNext]_vars

(* ------------- any sequence of inbound frames on a manager ------------- *)
\* The transport of pair manager m emits 'data' with this frame.
Receive(m, frame) ==
  /\ peer[m] = "connected"
  /\ HandleReceivedData(m, frame)
  /\ UNCHANGED <<peer, connectionTimeout, wire, pc, sfile, si, onDisconnected, lossInFlight,
                 lateEffect>>

\* The host link of subscriber instance s emits 'data' with this frame.
ChatReceive(s, frame) ==
  /\ tHost[s] = "connected"
  /\ ChatHandleReceivedData(s, frame)
  /\ UNCHANGED <<peers, subscribers, tHost, hostFed, errFired, closeFired, offerPromise, nextId,
                 now, h2s, hostOnMessage, hostProgress, joinedCount, leftCount, okAnswers,
                 tornDown, hpc, hfile, htargets, hi, hLoss, hLate>>

\* The frames a pair manager may be handed.
PairInbound ==
  {TextFrame([type |-> "fileStart", data |-> Descriptor(f)]) : f \in PlainFiles(1)}
    \cup {TextFrame([type |-> "chunkStart", data |-> [index |-> 0, size |-> 1, total |-> 1]]),
          TextFrame([type |-> "fileComplete", data |-> Null]),
          TextFrame([type |-> "ping", data |-> Null])}
    \cup {BinaryFrame(<<b>>) : b \in {Tag(1), Tag(2)}}

\* The frames a subscriber instance may be handed.
ChatInbound ==
  {FileStartFrame(c, f) : c \in Calls, f \in {g \in PlainFiles(1) : Len(g.data) > 0}}
    \cup {FileChunkFrame(1, NoFile, 0), TextFrame([type |-> "ping", data |-> Null])}
    \cup {FileCompleteFrame(c) : c \in Calls}
    \cup {BinaryFrame(<<b>>) : b \in {Tag(1), Tag(2)}}

IsStart(frame) == JsonParses(frame) /\ MessageType(frame) = "fileStart"
IsComplete(frame) == JsonParses(frame) /\ MessageType(frame) = "fileComplete"
IsBinary(frame) == ~JsonParses(frame)

\* The chunks subscriber s holds for the fileId this frame names.
HeldFor(s, frame) ==
  IF frame.text /\ frame.msg.type \in {"fileStart", "fileComplete"}
       /\ PosOf(fileTransfers[s], frame.msg.data.fileId) # {}
    THEN fileTransfers[s][SetMin(PosOf(fileTransfers[s], frame.msg.data.fileId))].receivedChunks
    ELSE 0

RxPair(m, frame) ==
  /\ rxLast' = [mgr |-> m, sub |-> 0, frame |-> frame,
                held |-> Cardinality(DOMAIN receivedChunks[m])]
  /\ rxStarted' = [rxStarted EXCEPT !.mgrs = IF IsStart(frame) THEN @ \cup {m} ELSE @]

RxChat(s, frame) ==
  /\ rxLast' = [mgr |-> "", sub |-> s, frame |-> frame, held |-> HeldFor(s, frame)]
  /\ rxStarted' = [rxStarted EXCEPT !.subs = IF IsStart(frame) THEN @ \cup {s} ELSE @]

RxNone == rxLast' = NoRx /\ UNCHANGED rxStarted

RecvInit ==
  /\ NegIdle /\ ApiIdle /\ ChunkIdle /\ EchoIdle /\ OrderIdle /\ RecvIdle
  /\ \/ appMode = "file-transfer" /\ PairInit /\ ChatIdle
     \/ appMode = "chat-broadcaster" /\ ChatJoined(1) /\ PairIdle

pairRecv == <<chatVars, negVars, appMode, chunkVars, echoVars, orderVars>>
chatRecv == <<pairVars, negVars, appMode, chunkVars, echoVars, orderVars, apiVars>>

RecvNext ==
  \/ PairMode /\ \E frame \in PairInbound :
       /\ expectedChunkIndex["rcv"] < MaxRecv
       /\ Len(onFileReceived) < MaxRaised
            \/ (IsComplete(frame) /\ Len(onFileReceived) = MaxRaised)
       /\ Receive("rcv", frame) /\ RxPair("rcv", frame) /\ UNCHANGED <<pairRecv, apiVars>>
  \/ PairMode /\ \E frame \in {g \in PairInbound : IsBinary(g)} :
       /\ expectedChunkIndex["snd"] < MaxRecv /\ pc[1] # "idle"
       /\ Receive("snd", frame) /\ RxPair("snd", frame) /\ UNCHANGED <<pairRecv, apiVars>>
  \/ PairMode /\ \E env \in Envelopes :
       /\ ~fed["rcv"]
       /\ ConnectToPeer("rcv", env) /\ RxNone
       /\ UNCHANGED <<chatVars, appMode, chunkVars, echoVars, orderVars>>
  \/ PairMode /\ \E f \in {g \in PlainFiles(1) : Len(g.data) = 1} :
       SendFileBegin(1, f) /\ RxNone /\ UNCHANGED <<pairRecv, apiVars>>
  \/ PairMode /\ SendFileChunk(1) /\ RxNone /\ UNCHANGED <<pairRecv, apiVars>>
  \/ PairMode /\ SendFileDelay(1) /\ RxNone /\ UNCHANGED <<pairRecv, apiVars>>
  \/ ChatMode /\ \E frame \in ChatInbound :
       /\ Len(onMessage[1]) < MaxLog
       /\ ChatReceive(1, frame) /\ RxChat(1, frame) /\ UNCHANGED chatRecv

SpecRecv == RecvInit /\ [][RecvNext]_vars

(* ---------------- connectToPeer on a manager with a session ------------ *)
EnvelopeInit ==
  appMode = "file-transfer" /\ PairInit /\ ChatIdle /\ NegIdle /\ ApiIdle /\ ChunkIdle /\ EchoIdle /\ OrderIdle /\ RecvIdle

EnvelopeNext ==
  \/ \E f \in FilesOf(1) : SendFileBegin(1, f) /\ UNCHANGED <<chatVars, negVars, appMode, chunkVars, echoVars, orderVars, recvVars>> /\ Forget
  \/ SendFileChunk(1) /\ UNCHANGED <<chatVars, negVars, appMode, chunkVars, echoVars, orderVars, recvVars>> /\ Forget
  \/ SendFileDelay(1) /\ UNCHANGED <<chatVars, negVars, appMode, chunkVars, echoVars, orderVars, recvVars>> /\ Forget
  \/ Deliver /\ UNCHANGED <<chatVars, negVars, appMode, chunkVars, echoVars, orderVars, recvVars>> /\ Forget
  \/ \E m \in Mgr : PeerClose(m) /\ UNCHANGED <<chatVars, negVars, appMode, chunkVars, echoVars, orderVars, recvVars>> /\ Forget
  \/ \E m \in Mgr : Destroy(m) /\ UNCHANGED <<chatVars, negVars, appMode, chunkVars, echoVars, orderVars, recvVars>> /\ Forget
  \/ \E m \in Mgr : \E env \in Envelopes :
       ConnectToPeer(m, env) /\ UNCHANGED <<chatVars, appMode, chunkVars, echoVars, orderVars, recvVars>>

SpecEnvelope == EnvelopeInit /\ [][EnvelopeNext]_vars

(* ------------------- destroy() while files are moving ------------------ *)
TeardownInit ==
  /\ ApiIdle /\ ChunkIdle /\ EchoIdle /\ OrderIdle /\ RecvIdle
  /\ \/ appMode = "file-transfer" /\ PairInit /\ ChatIdle /\ NegIdle
     \/ appMode = "chat-broadcaster" /\ ChatJoined(1) /\ PairIdle /\ SubsLinked(1)

pairOnly == <<chatVars, negVars, appMode, chunkVars, echoVars, orderVars, recvVars>>
chatOnly == <<pairVars, negVars, appMode, chunkVars, echoVars, orderVars, recvVars>>

TeardownNext ==
  \/ PairMode /\ \E f \in FilesOf(1) : SendFileBegin(1, f) /\ UNCHANGED pairOnly /\ Forget
  \/ PairMode /\ SendFileChunk(1) /\ UNCHANGED pairOnly /\ Forget
  \/ PairMode /\ SendFileDelay(1) /\ UNCHANGED pairOnly /\ Forget
  \/ PairMode /\ Deliver /\ UNCHANGED pairOnly /\ Forget
  \/ PairMode /\ \E m \in Mgr : PeerClose(m) /\ UNCHANGED pairOnly /\ Forget
  \/ PairMode /\ \E m \in Mgr : CallDestroy(m) /\ UNCHANGED pairOnly
  \/ ChatMode /\ \E f \in FilesOf(1) :
       ChatSendFileBegin(1, f, DOMAIN subscribers) /\ UNCHANGED chatOnly /\ Forget
  \/ ChatMode /\ ChatSendFileChunk(1) /\ UNCHANGED chatOnly /\ Forget
  \/ ChatMode /\ ChatSendFileDelay(1) /\ UNCHANGED chatOnly /\ Forget
  \/ ChatMode /\ \E s \in Ids :
       tSub[s] = "connected" /\ ChatDeliver(s) /\ UNCHANGED chatOnly /\ Forget
  \/ ChatMode /\ \E id \in Ids : HostPeerClose(id) /\ UNCHANGED chatOnly /\ Forget
  \/ ChatMode /\ \E s \in Ids :
       SubPeerClose(s) /\ UNCHANGED <<chatVars, pairVars, appMode, chunkVars, echoVars, orderVars, recvVars>> /\ Forget
  \/ ChatMode /\ \E i \in Inst : CallChatDestroy(i) /\ UNCHANGED <<pairVars, appMode, chunkVars, echoVars, orderVars, recvVars>>

SpecTeardown == TeardownInit /\ [][TeardownNext]_vars

(* ----------------------- the chunk arithmetic --------------------------- *)
PlanInit ==
  appMode = "file-transfer" /\ PairIdle /\ ChatIdle /\ NegIdle /\ ApiIdle /\ ChunkIdle /\ EchoIdle /\ OrderIdle /\ RecvIdle

notChunks == <<pairVars, chatVars, negVars, appMode, echoVars, orderVars, recvVars, apiVars>>

PlanNext ==
  \/ \E size \in Sizes : PlanBegin(size) /\ UNCHANGED notChunks
  \/ PlanChunk /\ UNCHANGED notChunks

SpecPlan == PlanInit /\ [][PlanNext]_vars

(* ---------------------------- negotiation ------------------------------ *)
NegInit ==
  /\ appMode \in {"file-transfer", "chat-broadcaster"}
  /\ PairIdle /\ ChatIdle /\ NegIdle /\ ApiIdle /\ ChunkIdle /\ EchoIdle /\ OrderIdle /\ RecvIdle

noChat == <<chatVars, appMode, chunkVars, echoVars, orderVars, recvVars, apiVars>>

\* The timer callback of manager m as a step of the system; lastCall
\* records that it ran.
TimerStep(m) ==
  /\ ConnectionTimeoutFires(m)
  /\ Called("connectionTimeout", 0, m, {}, "none", 0)
  /\ UNCHANGED <<s2h, due, chatVars, appMode, chunkVars, echoVars, orderVars, recvVars>>

NegNext ==
  \/ PairMode /\ \E w \in BOOLEAN : RxOfferReceived(w) /\ UNCHANGED noChat
  \/ PairMode /\ RxResume /\ UNCHANGED noChat
  \/ PairMode /\ \E f \in FilesOf(1) : TxCreateOffer(f) /\ UNCHANGED noChat
  \/ PairMode /\ TxResume /\ UNCHANGED noChat
  \/ PairMode /\ TxAnswerReceived /\ UNCHANGED noChat
  \/ PairMode /\ TxTimer /\ UNCHANGED noChat
  \/ PairMode /\ \E m \in Mgr : PeerSignal(m) /\ UNCHANGED noChat
  \/ PairMode /\ \E m \in Mgr : TimerStep(m)
  \/ PairMode /\ \E m \in Mgr : PeerConnect(m) /\ UNCHANGED noChat
  \/ PairMode /\ \E m \in Mgr : PeerError(m) /\ UNCHANGED noChat
  \/ PairMode /\ \E m \in Mgr : peer[m] = "connected" /\ PeerClose(m) /\ UNCHANGED notPair
  \/ PairMode /\ SendFileChunk(1) /\ UNCHANGED notPair
  \/ PairMode /\ SendFileDelay(1) /\ UNCHANGED notPair
  \/ ChatMode /\ CreateOffer /\ UNCHANGED notChat
  \/ ChatMode /\ \E id \in Ids : HostSignal(id) /\ UNCHANGED notChat
  \/ ChatMode /\ \E id \in Ids : HostPeerError(id) /\ UNCHANGED notChat
  \/ ChatMode /\ \E id \in Ids : HostPeerClose(id) /\ UNCHANGED notChat
  \/ ChatMode /\ \E s \in Ids : \E o \in Offers :
       (o.subscriberId = 0 \/ answerPromise[s] = "none")
       /\ CreateAnswer(s, o) /\ UNCHANGED <<pairVars, noChat>>
  \/ ChatMode /\ \E s \in Ids : SubSignal(s) /\ UNCHANGED <<pairVars, noChat>>
  \/ ChatMode /\ \E s \in Ids : SubPeerError(s) /\ UNCHANGED <<pairVars, noChat>>
  \/ ChatMode /\ \E s \in Ids : SubPeerClose(s) /\ UNCHANGED <<pairVars, noChat>>

\* The timers a manager has armed do run.
NegFairness ==
  \A m \in Mgr : WF_vars(PairMode /\ TimerStep(m))

SpecNeg == NegInit /\ [][NegNext]_vars /\ NegFairness

Spec == SpecPair


(* ====================================================================== *)
(*                             properties                                  *)
(* ====================================================================== *)
\* No chunk of the file is, as text, a JSON document.
NoJsonChunk(f) ==
  \A i \in 0..(CeilDiv(Len(f.data), ChunkSize) - 1) : ~IsJsonText(Slice(f, i))

\* C1 (pair round trip): when one sendFile call has run to completion with
\* no other transfer in flight and every frame has been delivered in send
\* order, the receiver has raised file-received exactly once, with the name,
\* the type and the bytes of the source, for every payload size from 0 up.
C1_PairRoundTrip ==
  \A c \in Calls :
    (/\ pc[c] = "resolved"
     /\ \A d \in Calls \ {c} : pc[d] = "idle"
     /\ wire = <<>>)
    => onFileReceived = <<sfile[c]>>

\* C2 (pair receiver, no cross-contamination): whatever the interleaving of
\* the frames of two overlapping sendFile calls, every file the receiver
\* raises carries exactly the bytes of the one transfer whose name and type
\* it is tagged with.  Payloads with a JSON-text chunk are left out: they
\* are the case of C1.
C2_NoCrossContamination ==
  (\A c \in Calls : NoJsonChunk(sfile[c])) =>
    \A k \in 1..Len(onFileReceived) :
      \E c \in Calls :
        /\ pc[c] # "idle"
        /\ onFileReceived[k].name = sfile[c].name
        /\ onFileReceived[k].type = sfile[c].type
        /\ onFileReceived[k].data = sfile[c].data

\* The file messages with a download URL that subscriber s has raised for
\* fileId c; data is the content of the Blob behind the URL.
FileMessages(s, c) ==
  {k \in 1..Len(onMessage[s]) :
     onMessage[s][k].type = "file" /\ onMessage[s][k].url /\ onMessage[s][k].id = c}

\* C3 (broadcast subscriber, per-fileId independence): with two host
\* sendFile calls in flight towards one subscriber, once both have resolved
\* and every frame is delivered, both transfers have completed and each
\* assembled file is byte-identical to its own source.  Payloads with a
\* JSON-text chunk are left out: they are the case of C4.
C3_PerFileIdIndependence ==
  (/\ \A c \in Calls : hpc[c] = "resolved" /\ NoJsonChunk(hfile[c])
   /\ h2s[1] = <<>>)
  => \A c \in Calls :
       /\ Cardinality(FileMessages(1, c)) = 1
       /\ \A k \in FileMessages(1, c) : onMessage[1][k].data = hfile[c].data

\* C4 (broadcast fan-out delivery): when one host sendFile call towards k
\* connected subscribers that stay connected has resolved and every frame
\* is delivered, each subscriber has emitted a file message for that fileId
\* whose content is byte-identical to the source.
C4_FanOutDelivery ==
  (hpc[1] = "resolved" /\ \A s \in Ids : h2s[s] = <<>>)
  => \A s \in Ids :
       /\ FileMessages(s, 1) # {}
       /\ \A k \in FileMessages(s, 1) : onMessage[s][k].data = hfile[1].data

\* C5 (receiver flow liveness): given a well-formed offer, the receiver flow
\* ends at the 'answer' step and not in the failure branch, as long as its
\* transport has neither failed nor closed.
C5_ReceiverReachesAnswer ==
  (rxPc \in {"done", "failed"} /\ peer["rcv"] = "new") => rxStep = "answer"

\* C6 (sender flow liveness): once the sender has accepted the answer and
\* its transport has fired 'connect', sendFile is invoked for the selected
\* file: with the flow's timer gone and the transport connected, the call
\* has been made.
C6_SenderSendsOnceConnected ==
  (txPc = "answered" /\ ~sendTimer /\ peer["snd"] = "connected") => pc[1] # "idle"

\* C7 (abort on transport loss): a sendFile, pair or broadcast, that lost
\* its transport between two chunks never resolves and neither sends a
\* further chunk nor reports further progress after the loss.
C7_AbortOnTransportLoss ==
  /\ \A c \in Calls : lossInFlight[c] => (pc[c] # "resolved" /\ ~lateEffect[c])
  /\ \A c \in Calls : hLoss[c] => (hpc[c] # "resolved" /\ ~hLate[c])

\* C8 (bounded negotiation): the promise of every createPeer, createOffer
\* and createAnswer call eventually settles; none stays pending forever.
C8_NegotiationSettles ==
  /\ \A m \in Mgr : (createPeerPromise[m] = "pending") ~> (createPeerPromise[m] # "pending")
  /\ \A id \in Ids : (offerPromise[id] = "pending") ~> (offerPromise[id] # "pending")
  /\ \A s \in Ids : (answerPromise[s] = "pending") ~> (answerPromise[s] # "pending")

\* C9 (join/leave pairing): 'left' never fires for an id more often than
\* 'joined' has fired before it, and one successful processAnswer for an id
\* followed by the 'close' of its transport yields exactly one 'joined' and
\* exactly one 'left' (unless destroy() dropped the subscriber first).
C9_JoinLeavePairing ==
  \A id \in Ids :
    /\ leftCount[id] <= joinedCount[id]
    /\ (okAnswers[id] = 1 /\ id \in closeFired /\ id \notin tornDown)
       => (joinedCount[id] = 1 /\ leftCount[id] = 1)

\* A subscriber joined once and its transport then closed.
C9_Witness ==
  \E id \in Ids :
    /\ okAnswers[id] = 1 /\ id \in closeFired /\ id \notin errFired /\ id \notin tornDown
    /\ joinedCount[id] = 1 /\ leftCount[id] = 1

\* C10 (membership teardown fires once): when the transport of a joined
\* subscriber has emitted 'error', 'close' or both, in either order, the
\* subscriber is in neither host map and 'left' has fired exactly once for
\* that id (unless destroy() dropped the subscriber first).
C10_TeardownFiresOnce ==
  \A id \in Ids :
    /\ leftCount[id] <= 1
    /\ (id \in (errFired \cup closeFired) /\ joinedCount[id] >= 1 /\ id \notin tornDown)
       => (leftCount[id] = 1 /\ id \notin DOMAIN subscribers /\ id \notin peers)

\* The transport of a joined subscriber has emitted both 'error' and 'close'.
C10_Witness ==
  \E id \in Ids :
    /\ id \in errFired /\ id \in closeFired /\ joinedCount[id] >= 1 /\ id \notin tornDown
    /\ leftCount[id] = 1

\* The welcome messages subscriber id has been shown.
WelcomesAt(id) == {k \in DOMAIN onMessage[id] : onMessage[id][k] = Welcome}

\* C11 (private welcome): once processAnswer has succeeded for an id, the
\* transport of that id is connected and nothing is in flight to it, the
\* subscriber has been shown exactly one welcome message.
C11_PrivateWelcome ==
  \A id \in Ids :
    (okAnswers[id] >= 1 /\ tHost[id] = "connected" /\ h2s[id] = <<>>)
      => Cardinality(WelcomesAt(id)) = 1

\* C12 (unknown subscriber rejected without effect): a processAnswer call on
\* the host that names an id with no transport in this.peers (never offered,
\* or removed by 'close' or 'error') rejects and changes neither map, fires
\* no 'joined', runs no message callback and sends nothing.
C12_UnknownSubscriberRejected ==
  [][(/\ lastCall' # lastCall
      /\ lastCall'.op = "processAnswer"
      /\ lastCall'.who = 0
      /\ lastCall'.targets \cap peers = {})
       => (/\ lastCall'.result = "rejected"
           /\ UNCHANGED <<peers, subscribers, tHost, hostFed, joinedCount, okAnswers,
                          hostOnMessage, onMessage, h2s>>)]_vars

\* processAnswer was just rejected for an id that had joined and whose
\* transport has since been removed.
C12_Witness ==
  \E id \in Ids :
    /\ lastCall.op = "processAnswer" /\ lastCall.who = 0 /\ lastCall.targets = {id}
    /\ lastCall.result = "rejected"
    /\ id \notin peers /\ id \in closeFired \cup errFired /\ joinedCount[id] >= 1

\* C13 (host map lockstep): in every reachable host state every id of
\* this.subscribers is a key of this.peers.
C13_HostMapLockstep == DOMAIN subscribers \subseteq peers

\* One subscriber is in both maps while another, which had joined, has been
\* removed from both.
C13_Witness ==
  \E id, other \in Ids :
    /\ id \in DOMAIN subscribers /\ id \in peers
    /\ joinedCount[other] >= 1 /\ other \notin DOMAIN subscribers /\ other \notin peers

\* C14 (message fan-out count): a host sendMessage whose targets are k ids
\* of this.subscribers has made exactly k peer.send calls when it returns.
C14_FanOutCount ==
  (/\ lastCall.op = "sendMessage"
   /\ lastCall.who = 0
   /\ lastCall.targets \subseteq DOMAIN subscribers)
    => lastCall.sends = Cardinality(lastCall.targets)

\* C15 (optimistic local echo on the subscriber side): a sendMessage call on
\* a subscriber instance runs that instance's message callback exactly once,
\* whatever the state of its host link and whether or not the send throws;
\* it puts at most one frame on its host link and nothing anywhere else.
C15_SubscriberLocalEcho ==
  [][(/\ lastCall' # lastCall
      /\ lastCall'.op = "sendMessage"
      /\ lastCall'.who \in Ids)
       => (/\ onMessage'[lastCall'.who] =
                Append(onMessage[lastCall'.who], SubscriberMessage(lastCall'.who, "hi"))
           /\ Len(s2h'[lastCall'.who]) - Len(s2h[lastCall'.who]) \in {0, 1}
           /\ \A t \in Ids \ {lastCall'.who} : onMessage'[t] = onMessage[t] /\ s2h'[t] = s2h[t]
           /\ UNCHANGED <<h2s, hostOnMessage>>)]_vars

\* A subscriber whose host link is connected has just called sendMessage,
\* the send threw, and the message was shown locally all the same.
C15_Witness ==
  \E s \in Ids :
    /\ lastCall.op = "sendMessage" /\ lastCall.who = s /\ lastCall.sends = 1
    /\ tSub[s] = "connected"
    /\ s2h[s] = <<>>
    /\ onMessage[s] = <<SubscriberMessage(s, "hi")>>

\* The 'hello' text messages of the host that subscriber id has been shown.
HellosAt(id) ==
  {k \in DOMAIN onMessage[id] : onMessage[id][k] = TextMessage("hello", "host")}

\* C16 (scenario B): when the host has created an offer, the subscriber has
\* answered it, the host has processed the answer and the link is connected
\* on both sides, every host sendMessage('hello') without targets that was
\* made while the subscriber was joined and connected has run the
\* subscriber's message callback exactly once, with sender 'host' and
\* content 'hello', as soon as nothing is in flight to it.
C16_ScenarioB ==
  \A id \in Ids :
    (tHost[id] = "connected" /\ tSub[id] = "connected" /\ h2s[id] = <<>>)
      => Cardinality(HellosAt(id)) = due[id]

\* One 'hello' was sent to a joined, connected subscriber and has arrived.
C16_Witness ==
  \E id \in Ids :
    /\ tHost[id] = "connected" /\ tSub[id] = "connected" /\ h2s[id] = <<>>
    /\ id \in DOMAIN subscribers /\ subscriberId[id] = id
    /\ due[id] = 1
    /\ onMessage[id] = <<TextMessage("hello", "host")>>

C18_BadEnvelopeNoEffect ==
  [][(/\ lastCall' # lastCall
      /\ lastCall'.op = "connectToPeer"
      /\ lastCall'.result = "threw")
       => UNCHANGED <<fileData, receivedChunks, expectedChunkIndex>>]_vars

\* C19 (malformed offer rejected without effect): a createAnswer call on a
\* subscriber instance with an offer that has no subscriberId rejects,
\* makes no transport and leaves the instance's subscriberId, host link and
\* pending answer as they were.
C19_MalformedOfferNoEffect ==
  [][(/\ lastCall' # lastCall
      /\ lastCall'.op = "createAnswer"
      /\ lastCall'.who \in Ids
      /\ lastCall'.targets = {0})
       => (/\ lastCall'.result = "rejected"
           /\ UNCHANGED <<tSub, subscriberId, answerPromise, subErrFired, subCloseFired>>)]_vars

\* A subscriber instance with a connected host link has just rejected a
\* malformed offer.
C19_Witness ==
  \E s \in Ids :
    /\ lastCall.op = "createAnswer" /\ lastCall.who = s /\ lastCall.targets = {0}
    /\ lastCall.result = "rejected"
    /\ tSub[s] = "connected" /\ subscriberId[s] = s

\* C20 (role violations reject without effect): createOffer, processAnswer
\* and sendFile called on a subscriber instance, and createAnswer called on
\* the host instance, reject and change nothing: no transport, no frame, no
\* callback, every map as before.
C20_RoleViolationNoEffect ==
  [][(/\ lastCall' # lastCall
      /\ \/ lastCall'.op \in {"createOffer", "processAnswer", "sendFile"} /\ lastCall'.who \in Ids
         \/ lastCall'.op = "createAnswer" /\ lastCall'.who = 0)
       => (/\ lastCall'.result = "rejected"
           /\ UNCHANGED <<chatVars, negVars, pairVars, s2h, due>>)]_vars

\* A connected subscriber instance has just had its sendFile rejected.
C20_Witness ==
  \E s \in Ids :
    /\ lastCall.op = "sendFile" /\ lastCall.who = s /\ lastCall.result = "rejected"
    /\ tSub[s] = "connected" /\ s \in DOMAIN subscribers

\* C21 (destroy() idempotence): a destroy() call runs the 'disconnected'
\* callback of its manager at most once, and a destroy() call that follows
\* a destroy() call on the same manager changes no state at all, so that
\* the two together notify at most once.  (In the model a call returns or
\* rejects; destroy() has no step that raises.)
C21_DestroyIdempotent ==
  [][(lastCall' # lastCall /\ lastCall'.op = "destroy")
       => /\ lastCall'.result = "returned"
          /\ \A m \in Mgr : onDisconnected'[m] - onDisconnected[m] \in {0, 1}
          /\ \A t \in Ids : subDisconnected'[t] - subDisconnected[t] \in {0, 1}
          /\ (lastCall.op = "destroy" /\ lastCall.who = lastCall'.who /\ lastCall.mgr = lastCall'.mgr)
               => UNCHANGED <<pairVars, chatVars, negVars>>]_vars

\* destroy() has just been called on the receiving pair manager right after
\* another call (tick is back at 0); the only calls are destroy() calls and
\* the sender still has its transport, so that call was a destroy() on the
\* receiver too; its transport was live and one notification was given.
C21_Witness ==
  /\ lastCall.op = "destroy" /\ lastCall.mgr = "rcv" /\ lastCall.tick = 0
  /\ peer["snd"] = "connected" /\ peer["rcv"] = "null"
  /\ onDisconnected["rcv"] = 1
  /\ pc[1] = "delay"

\* C22 (teardown clears transfer state): right after destroy() a pair
\* manager has no received chunk and no file descriptor, and a chat
\* instance has no entry in fileTransfers.
C22_TeardownClearsTransfers ==
  /\ \A m \in Mgr :
       (lastCall.op = "destroy" /\ lastCall.mgr = m)
         => (fileData[m] = Null /\ receivedChunks[m] = EmptyMap /\ expectedChunkIndex[m] = 0)
  /\ \A t \in Ids :
       (lastCall.op = "destroy" /\ lastCall.mgr = "" /\ lastCall.who = t)
         => fileTransfers[t] = <<>>

\* C23 (sendFile requires Connected): a WebRTCManager.sendFile call made
\* while there is no transport, or the transport is not connected, rejects,
\* puts no frame on the wire, reports no progress and leaves this.fileData
\* as it was.
C23_SendFileRequiresConnected ==
  [][\A c \in Calls :
       (pc[c] = "idle" /\ pc'[c] # "idle" /\ peer["snd"] # "connected")
         => (pc'[c] = "rejected" /\ UNCHANGED <<wire, onProgress, fileData, receivedChunks>>)]_vars

\* sendFile was called on a manager whose transport had closed, and was
\* rejected at once (no transport was lost while the call was in flight).
C23_Witness ==
  /\ PairMode
  /\ pc[1] = "rejected" /\ ~lossInFlight[1]
  /\ peer["snd"] = "destroyed"
  /\ Len(sfile[1].data) = MaxSize
  /\ fileData["snd"] = Null /\ wire = <<>> /\ onProgress["snd"] = Null

RECURSIVE SumSeq(_)
SumSeq(q) == IF q = <<>> THEN 0 ELSE Head(q) + SumSeq(Tail(q))

\* C24 (chunk arithmetic): with CHUNK_SIZE = 16384, sendFile declares
\* ceil(size / CHUNK_SIZE) chunks (the least count whose chunks cover the
\* size), binary frame i has min(CHUNK_SIZE, size - i * CHUNK_SIZE) bytes,
\* so every frame but the last is full; when the loop is over there are
\* exactly that many frames and their lengths add up to the size.  For
\* 50000 bytes that is 4 chunks, the last of 848 bytes.
C24_ChunkArithmetic ==
  /\ cPc # "idle" =>
       /\ cChunks * CHUNK_SIZE >= cSize
       /\ cChunks > 0 => (cChunks - 1) * CHUNK_SIZE < cSize
  /\ \A k \in 1..Len(cSent) :
       /\ cSent[k] = Min(CHUNK_SIZE, cSize - (k - 1) * CHUNK_SIZE)
       /\ k < cChunks => cSent[k] = CHUNK_SIZE
  /\ cPc = "done" => (Len(cSent) = cChunks /\ SumSeq(cSent) = cSize)
  /\ (cPc = "done" /\ cSize = 50000) => (cChunks = 4 /\ cSent[4] = 848)

\* Scenario A has run to its end.
C24_Witness ==
  /\ cPc = "done" /\ cSize = 50000
  /\ cSent = <<CHUNK_SIZE, CHUNK_SIZE, CHUNK_SIZE, 848>>

FramesBy(t, c) ==
  LET mine == SelectSeq(sent[t], LAMBDA e : e.by = c)
  IN  [k \in 1..Len(mine) |-> mine[k].frame]

IsPrefix(a, b) == Len(a) <= Len(b) /\ a = SubSeq(b, 1, Len(a))

\* (chunk-meta i, binary i) for i = 0 .. n-1, as the pair manager frames them.
RECURSIVE PairChunkFrames(_, _)
PairChunkFrames(f, n) ==
  IF n = 0 THEN <<>>
  ELSE PairChunkFrames(f, n - 1) \o
       <<TextFrame([type |-> "chunkStart",
                    data |-> [index |-> n - 1, size |-> Len(Slice(f, n - 1)),
                              total |-> Descriptor(f).chunks]]),
         BinaryFrame(Slice(f, n - 1))>>

PairPattern(f) ==
  <<TextFrame([type |-> "fileStart", data |-> Descriptor(f)])>>
    \o PairChunkFrames(f, Descriptor(f).chunks)
    \o <<TextFrame([type |-> "fileComplete", data |-> Null])>>

\* The same for the broadcast manager's call c.
RECURSIVE ChatChunkFrames(_, _, _)
ChatChunkFrames(c, f, n) ==
  IF n = 0 THEN <<>>
  ELSE ChatChunkFrames(c, f, n - 1) \o <<FileChunkFrame(c, f, n - 1), BinaryFrame(Slice(f, n - 1))>>

ChatPattern(c, f) ==
  <<FileStartFrame(c, f)>> \o ChatChunkFrames(c, f, CeilDiv(Len(f.data), ChunkSize))
    \o <<FileCompleteFrame(c)>>

\* On link t every chunk-meta frame is directly followed by the binary
\* frame of the same call and index.
MetaThenBinary(t) ==
  \A k \in DOMAIN sent[t] :
    LET e == sent[t][k] IN
    (e.frame.text /\ e.frame.msg.type \in {"chunkStart", "fileChunk"})
      => /\ k + 1 \in DOMAIN sent[t]
         /\ sent[t][k + 1].by = e.by
         /\ sent[t][k + 1].frame =
              IF t = 0 THEN BinaryFrame(Slice(sfile[e.by], e.frame.msg.data.index))
                       ELSE BinaryFrame(Slice(hfile[e.by], e.frame.msg.data.chunkIndex))

\* The pair transport: what a sendFile call has sent so far is a prefix of
\* start, (chunk-meta i, binary i) for i = 0, 1, ..., complete, and all of
\* it once the call resolved.
PairFramesInOrder ==
  \A c \in Calls :
    pc[c] # "idle" =>
      /\ IsPrefix(FramesBy(0, c), PairPattern(sfile[c]))
      /\ pc[c] = "resolved" => FramesBy(0, c) = PairPattern(sfile[c])

\* C26: on every transport the frames of one sendFile call are start, then
\* (chunk-meta i, binary i) for i ascending from 0, then complete (what has
\* been sent so far is a prefix of that), and every chunk-meta frame is
\* directly followed by its own binary frame, whatever sendMessage calls
\* and other sendFile calls run in between.
C26_FrameOrdering ==
  /\ PairFramesInOrder
  /\ \A t \in Ids : \A c \in Calls :
       hpc[c] # "idle" => IsPrefix(FramesBy(t, c), ChatPattern(c, hfile[c]))
  /\ \A t \in Links : MetaThenBinary(t)

\* The keys of every chunk map of subscriber instance s lie below the
\* total its 'fileStart' declared.
ChatKeysInRange(s) ==
  \A k \in DOMAIN fileTransfers[s] :
    DOMAIN fileTransfers[s][k].chunks \subseteq 0..(fileTransfers[s][k].totalChunks - 1)

\* C27: in every receiver state the keys of receivedChunks lie in
\* 0 .. expectedChunkCount - 1 (no key at all while no descriptor is
\* there), whatever frames came in; for a subscriber instance this holds
\* of every entry of fileTransfers.
C27_KeyRange ==
  /\ \A m \in Mgr :
       DOMAIN receivedChunks[m] \subseteq
         (IF fileData[m] = Null THEN {} ELSE 0..(fileData[m].chunks - 1))
  /\ \A s \in Ids : ChatKeysInRange(s)

\* C28: a step that processes a 'fileStart' frame leaves the receive state
\* at: descriptor and total as declared, no chunk, count 0.  On a pair
\* manager that is its one transfer state, on a subscriber instance the one
\* entry of the frame's fileId.
C28_StartResets ==
  [][IsStart(rxLast'.frame) =>
       /\ rxLast'.mgr # "" =>
            /\ fileData'[rxLast'.mgr] = rxLast'.frame.msg.data
            /\ receivedChunks'[rxLast'.mgr] = EmptyMap
            /\ expectedChunkIndex'[rxLast'.mgr] = 0
       /\ rxLast'.sub # 0 =>
            LET d == rxLast'.frame.msg.data
                at == PosOf(fileTransfers'[rxLast'.sub], d.fileId)
            IN /\ Cardinality(at) = 1
               /\ \A k \in at :
                    LET t == fileTransfers'[rxLast'.sub][k] IN
                    t.totalChunks = d.totalChunks /\ t.chunks = EmptyMap /\ t.receivedChunks = 0]_vars

\* A subscriber instance was handed a 'fileStart' for a fileId of which it
\* held a chunk of an unfinished transfer.
C28_Witness ==
  /\ rxLast.sub = 1 /\ IsStart(rxLast.frame) /\ rxLast.held > 0
  /\ rxLast.frame.msg.data.totalChunks > rxLast.held

\* C29: a step that processes a binary frame on an instance that has
\* processed no 'fileStart' stores nothing, leaves the count alone and
\* reports no progress.
C29_BinaryNeedsStart ==
  [][(IsBinary(rxLast'.frame)) =>
       /\ (rxLast'.mgr # "" /\ rxLast'.mgr \notin rxStarted.mgrs) =>
            /\ receivedChunks'[rxLast'.mgr] = receivedChunks[rxLast'.mgr]
            /\ expectedChunkIndex'[rxLast'.mgr] = expectedChunkIndex[rxLast'.mgr]
            /\ onProgress'[rxLast'.mgr] = onProgress[rxLast'.mgr]
       /\ (rxLast'.sub # 0 /\ rxLast'.sub \notin rxStarted.subs) =>
            /\ fileTransfers'[rxLast'.sub] = fileTransfers[rxLast'.sub]
            /\ onFileProgress'[rxLast'.sub] = onFileProgress[rxLast'.sub]]_vars

\* The bytes of the one-byte chunks 0 .. n-1 of a chunk map, in that order.
InIndexOrder(chunks, n) == [k \in 1..n |-> chunks[k - 1][1]]

\* C30: a step that processes a 'fileComplete' frame raises a file event
\* (pair: onFileReceivedCallback; subscriber: a file message with a
\* download URL) only if the transfer holds as many chunks as declared and
\* every index below the total, and the file's content is then the chunks
\* in ascending index order.
C30_AssemblyOnlyWhenComplete ==
  [][IsComplete(rxLast'.frame) =>
       /\ (rxLast'.mgr # "" /\ onFileReceived' # onFileReceived) =>
            LET m == rxLast'.mgr IN
            /\ fileData[m] # Null
            /\ Cardinality(DOMAIN receivedChunks[m]) = fileData[m].chunks
            /\ \A k \in 0..(fileData[m].chunks - 1) : k \in DOMAIN receivedChunks[m]
            /\ onFileReceived' =
                 Append(onFileReceived,
                        [name |-> fileData[m].name, type |-> fileData[m].type,
                         data |-> InIndexOrder(receivedChunks[m], fileData[m].chunks)])
       /\ (rxLast'.sub # 0 /\ onMessage'[rxLast'.sub] # onMessage[rxLast'.sub]) =>
            LET s == rxLast'.sub
                at == PosOf(fileTransfers[s], rxLast'.frame.msg.data.fileId)
            IN /\ at # {}
               /\ \A k \in at :
                    LET t == fileTransfers[s][k] IN
                    /\ t.receivedChunks = t.totalChunks
                    /\ \A x \in 0..(t.totalChunks - 1) : x \in DOMAIN t.chunks
                    /\ Len(onMessage'[s]) = Len(onMessage[s]) + 1
                    /\ onMessage'[s][Len(onMessage'[s])].url
                    /\ onMessage'[s][Len(onMessage'[s])].data = InIndexOrder(t.chunks, t.totalChunks)]_vars

\* A pair manager was handed 'fileComplete' while holding both chunks of a
\* two-chunk transfer and raised the file, first chunk first.
C30_Witness ==
  /\ rxLast.mgr = "rcv" /\ IsComplete(rxLast.frame) /\ rxLast.held = 2
  /\ Len(onFileReceived) = 1
  /\ onFileReceived[1].data = <<Tag(1), Tag(2)>>

\* C31: a step that processes a 'fileComplete' frame leaves the instance
\* without the transfer state the frame refers to, whether the file was
\* assembled or the transfer was incomplete: a pair manager holds no
\* descriptor and no chunk, a subscriber instance no entry of that fileId.
C31_StateDroppedAtCompletion ==
  [][IsComplete(rxLast'.frame) =>
       /\ rxLast'.mgr # "" =>
            /\ fileData'[rxLast'.mgr] = Null
            /\ receivedChunks'[rxLast'.mgr] = EmptyMap
       /\ rxLast'.sub # 0 =>
            PosOf(fileTransfers'[rxLast'.sub], rxLast'.frame.msg.data.fileId) = {}]_vars

\* C32: a step that processes a chunk-meta frame or a control frame of an
\* unrecognised type changes nothing of the receive state and raises no
\* callback; and a binary frame is stored under the number of binary
\* frames stored before it since the 'fileStart', whatever index the
\* chunk-meta frame before it declared.
C32_InertControlFrames ==
  [][/\ (JsonParses(rxLast'.frame) /\ rxLast'.mgr # ""
          /\ MessageType(rxLast'.frame) \notin {"fileStart", "fileComplete"})
        => UNCHANGED <<fileData, receivedChunks, expectedChunkIndex, onProgress, onFileReceived>>
     /\ (JsonParses(rxLast'.frame) /\ rxLast'.sub # 0
          /\ MessageType(rxLast'.frame) \notin {"message", "fileStart", "fileComplete"})
        => UNCHANGED <<fileTransfers, onMessage, onFileProgress>>
     /\ (IsBinary(rxLast'.frame) /\ rxLast'.mgr # "" /\ fileData[rxLast'.mgr] # Null)
        => /\ DOMAIN receivedChunks'[rxLast'.mgr] = 0..rxLast'.held
           /\ receivedChunks'[rxLast'.mgr][rxLast'.held] = rxLast'.frame.bytes
     /\ (IsBinary(rxLast'.frame) /\ rxLast'.sub # 0)
        => \A k \in DOMAIN fileTransfers[rxLast'.sub] :
             LET t == fileTransfers[rxLast'.sub][k]
                 u == fileTransfers'[rxLast'.sub][k]
             IN u = t \/ (DOMAIN u.chunks = 0..t.receivedChunks
                           /\ u.chunks[t.receivedChunks] = rxLast'.frame.bytes)]_vars

\* A pair manager that held one chunk, so that the next index was 1, was
\* handed a 'chunkStart' declaring index 0.
C32_Witness ==
  /\ rxLast.mgr = "rcv" /\ rxLast.frame.text /\ rxLast.frame.msg.type = "chunkStart"
  /\ rxLast.frame.msg.data.index = 0
  /\ rxLast.held = 1 /\ expectedChunkIndex["rcv"] = 1
  /\ fileData["rcv"] # Null /\ fileData["rcv"].chunks = 2

\* C37: a pair receiver that is handed a 'fileComplete' frame directly
\* after a 'fileComplete' frame, with no 'fileStart' in between, raises no
\* file-received event for the second one.
C37_OneFilePerTransfer ==
  [][(rxLast.mgr = "rcv" /\ IsComplete(rxLast.frame)
        /\ rxLast'.mgr = "rcv" /\ IsComplete(rxLast'.frame))
       => onFileReceived' = onFileReceived]_vars

\* C38: every progress notification a binary frame raises on a receiver
\* reports a received count from 1 to the expected chunk count and a
\* percentage from 0 to 100 (a subscriber's notification carries the
\* percentage only).
C38_ProgressBounds ==
  [][IsBinary(rxLast'.frame) =>
       /\ (rxLast'.mgr # "" /\ onProgress'[rxLast'.mgr] # onProgress[rxLast'.mgr]) =>
            LET p == onProgress'[rxLast'.mgr] IN
            /\ 1 <= p.sent /\ p.sent <= p.total
            /\ p.percentage.kind = "finite"
            /\ 0 <= p.percentage.value /\ p.percentage.value <= 100
       /\ (rxLast'.sub # 0 /\ onFileProgress'[rxLast'.sub] # onFileProgress[rxLast'.sub]) =>
            LET p == onFileProgress'[rxLast'.sub] IN
            /\ p.percentage.kind = "finite"
            /\ 0 <= p.percentage.value /\ p.percentage.value <= 100]_vars


\* C33 (Single host link): a subscriber instance has at most one transport
\* that is not destroyed, after any sequence of createAnswer calls: every
\* transport it created is this.hostPeer or has been destroyed.  No transport
\* that a later createAnswer replaced is then still alive and waiting to emit
\* its 'signal'.
C33_SingleHostLink ==
  \A s \in Ids : stale[s] = {}


\* C34 (No headless chunks): on every subscriber transport, the host sends
\* a 'fileChunk', binary or 'fileComplete' frame of a transfer only after
\* it sent that transfer's 'fileStart' on the same transport: the first
\* frame a sendFile call puts on a transport is its 'fileStart', also for a
\* target that becomes connected after the transfer has started.
C34_NoHeadlessChunks ==
  \A t \in Ids : \A c \in Calls :
    LET mine == FramesBy(t, c) IN
    mine # <<>> => (mine[1].text /\ mine[1].msg.type = "fileStart")


\* C35 (Replayed answer is harmless): a processAnswer call carrying a
\* subscriberId that is already a Subscriber emits no further 'subscriber
\* joined' event and leaves the existing Subscriber record as it is (same
\* name, same joinedAt).
C35_ReplayedAnswerHarmless ==
  [][(/\ lastCall'.op = "processAnswer"
      /\ lastCall'.who = 0
      /\ lastCall'.targets \subseteq DOMAIN subscribers)
       => /\ joinedCount' = joinedCount
          /\ \A id \in lastCall'.targets :
               /\ id \in DOMAIN subscribers'
               /\ subscribers'[id] = subscribers[id]]_vars


\* C36 (Subscriber disconnect fires once): a subscriber instance that made
\* one transport has had its 'disconnected' callback invoked at most once,
\* also when the transport emitted 'error' and then 'close'.
C36_SubscriberDisconnectOnce ==
  \A s \in Ids : subDisconnected[s] <= 1


\* The timer callback of manager m ran in this step.
TimerRan(m) ==
  /\ lastCall' # lastCall
  /\ lastCall'.op = "connectionTimeout"
  /\ lastCall'.mgr = m

====
